---- MODULE Spec2Model ----
(***************************************************************************)
(* cigar-scraper: the extraction core.                                     *)
(*                                                                         *)
(* extractData / extractWithRetry (src/unnamed/part_003) ask the inference *)
(* collaborator for a JSON payload under p-retry, parse it, and pass it    *)
(* through sanitizeExtractionData (src/src/utils/validation.ts).           *)
(*                                                                         *)
(* Beside it: retry and extractStructuredDataFromChunks (src/src/main.ts), *)
(* FileManager, loadConfig and resetConfigCache (src/src/utils/config.ts), *)
(* and scrape (src/src/core/scraper.ts).  Each is an entry point of Init   *)
(* with a variable of its own; the others stay idle meanwhile.             *)
(***************************************************************************)
EXTENDS Integers, Sequences, FiniteSets, TLC

(***************************************************************************)
(* JSON values.  Every value is a record of one shape:                     *)
(*   t    : "null" | "boolean" | "number" | "string" | "array" | "object"  *)
(*          ("undefined" for a missing property, "throw" for an exception) *)
(*   b    : the boolean,  n : the number                                   *)
(*   s, caps : the string, written as its lower-case letters s and the set *)
(*          caps of the positions that are in upper case ("Tin" is         *)
(*          s = "tin", caps = {1})                                         *)
(*   keys, kids : the property names, in insertion order, and the values   *)
(*          (of an object), or the elements (of an array, keys = <<>>)     *)
(***************************************************************************)
Blank ==
  [t |-> "null", b |-> FALSE, n |-> 0, s |-> "", caps |-> {}, keys |-> <<>>, kids |-> <<>>]

JNull == Blank

Undefined == [Blank EXCEPT !.t = "undefined"]

JBool(x) == [Blank EXCEPT !.t = "boolean", !.b = x]

JNum(x) == [Blank EXCEPT !.t = "number", !.n = x]

JStr(lower, upperAt) == [Blank EXCEPT !.t = "string", !.s = lower, !.caps = upperAt]

JArr(elems) == [Blank EXCEPT !.t = "array", !.kids = elems]

JObj(names, vals) == [Blank EXCEPT !.t = "object", !.keys = names, !.kids = vals]

Thrown(name) == [Blank EXCEPT !.t = "throw", !.s = name]

\* JavaScript's ToBoolean on a JSON value: null, undefined, false, 0 and "" are falsy.
Truthy(v) ==
  CASE v.t \in {"null", "undefined"} -> FALSE
    [] v.t = "boolean" -> v.b
    [] v.t = "number" -> v.n # 0
    [] v.t = "string" -> v.s # ""
    [] OTHER -> TRUE

\* JavaScript's typeof: null, arrays and objects are all "object".
TypeOf(v) ==
  CASE v.t \in {"null", "array", "object"} -> "object"
    [] OTHER -> v.t

IsArray(v) == v.t = "array"

\* String.prototype.toLowerCase: every letter in lower case; a TypeError on a non-string.
ToLowerCase(v) ==
  IF v.t = "string" THEN JStr(v.s, {}) ELSE Thrown("TypeError")

\* result[key]: the property's value, undefined when the object has no such own property.
Get(obj, key) ==
  IF \E i \in 1..Len(obj.keys) : obj.keys[i] = key
  THEN obj.kids[CHOOSE i \in 1..Len(obj.keys) : obj.keys[i] = key]
  ELSE Undefined

\* Put without the spread of the original object: only the assigned property survives.
Put_WithoutSpread(obj, key, val) ==
  [obj EXCEPT !.keys = <<key>>, !.kids = <<val>>]

\* result[key] = val on an object that has the property: the value changes in place.
Put(obj, key, val) ==
  [obj EXCEPT !.kids = [i \in 1..Len(obj.kids) |-> IF obj.keys[i] = key THEN val ELSE obj.kids[i]]]

\* The accepted packaging values before tin, tube, cabinet, case, sleeve, other and
\* unspecified were added.
validTypes_Original == {"single", "pack", "box", "bundle", "sampler"}

\* The accepted packaging values of the sanitizer.
validTypes ==
  {"single", "pack", "box", "bundle", "sampler", "tin", "tube", "cabinet", "case", "sleeve",
   "other", "unspecified"}

\* validTypes.includes(normalizedType): strict equality with one of the literals.
Includes(types, v) == v.t = "string" /\ v.caps = {} /\ v.s \in types

\* The fallback written with a capital letter.
Other_Capitalised == JStr("other", {1})

Other == JStr("other", {})

\* The field the sanitizer inspects.
SanitizedKey == "quantity_type"

(***************************************************************************)
(* sanitizeExtractionData returns [val, warn]: the returned value (or the  *)
(* exception thrown) and the console.warn lines written on the way, each   *)
(* line being the original value it names.                                 *)
(***************************************************************************)
RECURSIVE sanitizeExtractionData(_)
RECURSIVE SanitizeElements(_)
RECURSIVE SanitizeProperties(_, _)

\* data.map(sanitizeExtractionData)
SanitizeElements(elems) ==
  IF elems = <<>> THEN [vals |-> <<>>, warn |-> <<>>, thrown |-> FALSE]
  ELSE LET h == sanitizeExtractionData(Head(elems))
           r == SanitizeElements(Tail(elems))
       IN  IF h.val.t = "throw"
           THEN [vals |-> <<h.val>>, warn |-> h.warn, thrown |-> TRUE]
           ELSE [vals |-> <<h.val>> \o r.vals, warn |-> h.warn \o r.warn, thrown |-> r.thrown]

\* Object.keys(result).forEach: only truthy values of type object are processed.
SanitizeProperties(vals, i) ==
  IF i > Len(vals) THEN [vals |-> <<>>, warn |-> <<>>, thrown |-> FALSE]
  ELSE LET v == vals[i]
           h == IF Truthy(v) /\ TypeOf(v) = "object"
                THEN sanitizeExtractionData(v)
                ELSE [val |-> v, warn |-> <<>>]
           r == SanitizeProperties(vals, i + 1)
       IN  IF h.val.t = "throw"
           THEN [vals |-> <<h.val>>, warn |-> h.warn, thrown |-> TRUE]
           ELSE [vals |-> <<h.val>> \o r.vals, warn |-> h.warn \o r.warn, thrown |-> r.thrown]

\* SanitizeField without the typeof test: any truthy value is lower-cased.
SanitizeField_NoTypeofTest(result) ==
  LET qt == Get(result, SanitizedKey)
  IN  IF Truthy(qt)
      THEN LET normalizedType == ToLowerCase(qt)
           IN  IF normalizedType.t = "throw" THEN [val |-> normalizedType, warn |-> <<>>]
               ELSE IF ~Includes(validTypes, normalizedType)
               THEN [val |-> Put(result, SanitizedKey, Other), warn |-> <<qt>>]
               ELSE [val |-> Put(result, SanitizedKey, normalizedType), warn |-> <<>>]
      ELSE [val |-> result, warn |-> <<>>]

\* SanitizeField whose warning names the lower-cased value instead of the original.
SanitizeField_WarnsNormalized(result) ==
  LET qt == Get(result, SanitizedKey)
  IN  IF Truthy(qt) /\ TypeOf(qt) = "string"
      THEN LET normalizedType == ToLowerCase(qt)
           IN  IF normalizedType.t = "throw" THEN [val |-> normalizedType, warn |-> <<>>]
               ELSE IF ~Includes(validTypes, normalizedType)
               THEN [val |-> Put(result, SanitizedKey, Other), warn |-> <<normalizedType>>]
               ELSE [val |-> Put(result, SanitizedKey, normalizedType), warn |-> <<>>]
      ELSE [val |-> result, warn |-> <<>>]

\* The quantity_type step on the shallow copy: [val |-> the copy after it, warn |-> its lines].
SanitizeField(result) ==
  LET qt == Get(result, SanitizedKey)
  IN  IF Truthy(qt) /\ TypeOf(qt) = "string"
      THEN LET normalizedType == ToLowerCase(qt)
           IN  IF normalizedType.t = "throw" THEN [val |-> normalizedType, warn |-> <<>>]
               ELSE IF ~Includes(validTypes, normalizedType)
               THEN [val |-> Put(result, SanitizedKey, Other), warn |-> <<qt>>]
               ELSE [val |-> Put(result, SanitizedKey, normalizedType), warn |-> <<>>]
      ELSE [val |-> result, warn |-> <<>>]

sanitizeExtractionData(data) ==
  IF ~Truthy(data) \/ TypeOf(data) # "object" THEN [val |-> data, warn |-> <<>>]
  ELSE IF IsArray(data)
  THEN LET m == SanitizeElements(data.kids)
       IN  IF m.thrown THEN [val |-> m.vals[Len(m.vals)], warn |-> m.warn]
           ELSE [val |-> JArr(m.vals), warn |-> m.warn]
  ELSE LET f == SanitizeField(data)
       IN  IF f.val.t = "throw" THEN f
           ELSE LET m == SanitizeProperties(f.val.kids, 1)
                IN  IF m.thrown THEN [val |-> m.vals[Len(m.vals)], warn |-> f.warn \o m.warn]
                    ELSE [val |-> JObj(f.val.keys, m.vals), warn |-> f.warn \o m.warn]

(***************************************************************************)
(* The Validator: the zod schemas of src/src/types/cigar-schema.ts.        *)
(* A schema is [k, nullable, values, fields, subs]: its kind, whether      *)
(* .nullable() was applied, the enum's values, and the property names and  *)
(* schemas of an object (subs = <<item schema>> for an array).             *)
(***************************************************************************)
ZSchema(k, values, fields, subs) ==
  [k |-> k, nullable |-> FALSE, values |-> values, fields |-> fields, subs |-> subs]

ZString == ZSchema("string", {}, <<>>, <<>>)

ZNumber == ZSchema("number", {}, <<>>, <<>>)

ZEnum(values) == ZSchema("enum", values, <<>>, <<>>)

ZArray(item) == ZSchema("array", {}, <<>>, <<item>>)

ZObject(fields, subs) == ZSchema("object", {}, fields, subs)

Nullable(schema) == [schema EXCEPT !.nullable = TRUE]

\* No schema of cigar-schema.ts is .optional(): .nullish() in place of .nullable() would
\* let an absent key through.
AcceptsUndefined_Nullish(schema) == schema.nullable

\* Whether a schema accepts undefined, the value of an absent key: none here is .optional().
AcceptsUndefined(schema) == FALSE

\* schema.safeParse(v): the paths of the issues of the ZodError, each path the property
\* names and the zero-based array indexes from the root.  z.object() ignores unknown keys.
RECURSIVE ZodIssues(_, _, _)
ZodIssues(schema, v, path) ==
  IF v.t = "undefined" THEN (IF AcceptsUndefined(schema) THEN {} ELSE {path})
  ELSE IF v.t = "null" THEN (IF schema.nullable THEN {} ELSE {path})
  ELSE CASE schema.k = "string" -> IF v.t = "string" THEN {} ELSE {path}
         [] schema.k = "number" -> IF v.t = "number" THEN {} ELSE {path}
         [] schema.k = "enum" ->
              IF v.t = "string" /\ v.caps = {} /\ v.s \in schema.values THEN {} ELSE {path}
         [] schema.k = "array" ->
              IF v.t # "array" THEN {path}
              ELSE UNION {ZodIssues(schema.subs[1], v.kids[i], Append(path, ToString(i - 1))) :
                            i \in 1..Len(v.kids)}
         [] schema.k = "object" ->
              IF v.t # "object" THEN {path}
              ELSE UNION {ZodIssues(schema.subs[j], Get(v, schema.fields[j]),
                                    Append(path, schema.fields[j])) :
                            j \in 1..Len(schema.fields)}
         [] OTHER -> {path}

\* schema.parse(v) returns (TRUE) or throws the ZodError (FALSE).
ZodAccepts(schema, v) == ZodIssues(schema, v, <<>>) = {}

SizeSchema ==
  ZObject(<<"length", "length_unit", "ring_gauge", "display">>,
          <<Nullable(ZNumber), Nullable(ZEnum({"inches", "mm"})), Nullable(ZNumber),
            Nullable(ZString)>>)

PriceSchema ==
  ZObject(<<"current_price", "msrp", "savings", "currency">>,
          <<Nullable(ZNumber), Nullable(ZNumber), Nullable(ZNumber), Nullable(ZString)>>)

SpecificationsSchema ==
  ZObject(<<"strength", "wrapper", "binder", "filler", "origin", "manufacturer", "blender">>,
          [i \in 1..7 |-> Nullable(ZString)])

CigarProductSchema ==
  ZObject(<<"product_name", "brand", "description", "specifications", "single_size",
            "single_price", "single_availability", "multiple_sizes">>,
          <<Nullable(ZString), Nullable(ZString), Nullable(ZString), SpecificationsSchema,
            Nullable(SizeSchema), Nullable(PriceSchema), Nullable(ZString),
            Nullable(ZArray(ZObject(<<"size", "price", "availability">>,
                                    <<SizeSchema, PriceSchema, Nullable(ZString)>>)))>>)

CigarExtractionSchema ==
  ZObject(<<"page_type", "products">>,
          <<ZEnum({"single_product_single_size", "single_product_multiple_sizes",
                   "multiple_products", "search_results"}),
            ZArray(CigarProductSchema)>>)

(***************************************************************************)
(* The schema sent for inference: CIGAR_EXTRACTION_SCHEMA of               *)
(* src/unnamed/part_001, a JSON Schema.  A schema is                       *)
(* [types, enumerated, enum, fields, subs, required, items]: the allowed   *)
(* JSON types, whether it has an enum and the enum's values, the           *)
(* properties' names and schemas, the required names, and <<item schema>>  *)
(* of an array.  additionalProperties is true throughout.                  *)
(***************************************************************************)
JSchema(types, enumerated, enum, fields, subs, required, items) ==
  [types |-> types, enumerated |-> enumerated, enum |-> enum, fields |-> fields,
   subs |-> subs, required |-> required, items |-> items]

JType(types) == JSchema(types, FALSE, {}, <<>>, <<>>, {}, <<>>)

JEnum(types, enum) == JSchema(types, TRUE, enum, <<>>, <<>>, {}, <<>>)

JArrayOf(types, item) == JSchema(types, FALSE, {}, <<>>, <<>>, {}, <<item>>)

JObjectOf(fields, subs, required) ==
  JSchema({"object"}, FALSE, {}, fields, subs, required, <<>>)

StringOrNull == JType({"string", "null"})

NumberOrNull == JType({"number", "null"})

\* A value conforms to a JSON Schema: type, enum, items, required, properties.
RECURSIVE Conforms(_, _)
Conforms(schema, v) ==
  /\ v.t \in schema.types
  /\ schema.enumerated => v \in schema.enum
  /\ (v.t = "array" /\ schema.items # <<>>) =>
       \A i \in 1..Len(v.kids) : Conforms(schema.items[1], v.kids[i])
  /\ v.t = "object" =>
       /\ \A r \in schema.required : Get(v, r).t # "undefined"
       /\ \A j \in 1..Len(schema.fields) :
            Get(v, schema.fields[j]).t # "undefined" =>
              Conforms(schema.subs[j], Get(v, schema.fields[j]))

\* The page_type values of the schema sent for inference.
page_type_enum ==
  {"blend_page", "brand_page", "search_page", "single_vitola_page", "collection_page",
   "unknown"}

strength_enum ==
  {JStr("mild", {1}), JStr("mild to medium", {1, 9}), JStr("medium", {1}),
   JStr("medium to full", {1, 11}), JStr("full", {1}), JStr("full+", {1}), JNull}

shape_enum ==
  {"parejo", "figurado", "perfecto", "pyramid", "torpedo", "belicoso", "culebra", "diadema",
   "presidente", "other"}

\* The non-null package_type values of the schema sent for inference.
package_type_enum ==
  {"single", "pack", "box", "bundle", "sampler", "tin", "tube", "cabinet", "case", "sleeve",
   "other", "unspecified"}

\* The enum of a JSON Schema: the strings as written, and null.
EnumOf(strings) == {JStr(x, {}) : x \in strings} \cup {JNull}

PackageTypeJsonSchema == JEnum({"string", "null"}, EnumOf(package_type_enum))

\* The non-null quantity_type values of CIGAR_EXTRACTION_SCHEMA in config/openai-schema.ts.
quantity_type_enum ==
  {"single", "pack", "box", "bundle", "sampler", "tin", "tube", "cabinet", "case", "sleeve",
   "other", "unspecified"}

OfferJsonSchema ==
  JObjectOf(<<"current_price", "msrp", "savings", "currency", "package_quantity",
              "package_type", "cigars_per_package", "total_cigars", "availability">>,
            <<NumberOrNull, NumberOrNull, NumberOrNull, StringOrNull, NumberOrNull,
              PackageTypeJsonSchema, NumberOrNull, NumberOrNull,
              JType({"boolean", "null"})>>,
            {"current_price", "msrp", "savings", "currency", "package_quantity",
             "package_type", "cigars_per_package", "total_cigars", "availability"})

SizeJsonSchema ==
  JObjectOf(<<"length", "length_unit", "ring_gauge", "display">>,
            <<NumberOrNull, JEnum({"string", "null"}, EnumOf({"inches", "mm"})), NumberOrNull,
              StringOrNull>>,
            {"length", "length_unit", "ring_gauge", "display"})

VitolaJsonSchema ==
  JObjectOf(<<"name", "shape", "size", "offers">>,
            <<StringOrNull, JEnum({"string", "null"}, EnumOf(shape_enum)), SizeJsonSchema,
              JArrayOf({"array"}, OfferJsonSchema)>>,
            {"name", "shape", "size", "offers"})

SpecificationsJsonSchema ==
  JObjectOf(<<"strength", "wrapper", "binder", "filler", "origin", "factory", "blender">>,
            <<JEnum({"string", "null"}, strength_enum),
              JArrayOf({"array", "null"}, JType({"string"})),
              JArrayOf({"array", "null"}, JType({"string"})),
              JArrayOf({"array", "null"}, JType({"string"})),
              StringOrNull, StringOrNull, JArrayOf({"array"}, JType({"string"}))>>,
            {"strength", "wrapper", "binder", "filler", "origin", "factory", "blender"})

ProductJsonSchema ==
  JObjectOf(<<"product_name", "brand", "company", "description", "specifications", "vitolas">>,
            <<StringOrNull, StringOrNull, StringOrNull, StringOrNull, SpecificationsJsonSchema,
              JArrayOf({"array"}, VitolaJsonSchema)>>,
            {"product_name", "brand", "company", "description", "specifications", "vitolas"})

CIGAR_EXTRACTION_SCHEMA ==
  JObjectOf(<<"page_type", "products">>,
            <<JEnum({"string"}, {JStr(x, {}) : x \in page_type_enum}),
              JArrayOf({"array"}, ProductJsonSchema)>>,
            {"page_type", "products"})

(***************************************************************************)
(* The payloads the inference collaborator may deliver.                    *)
(***************************************************************************)
MaxDepth == 2

MaxLen == 2

MaxRetries == 2

\* p-retry's retries when extractData is given no retryOptions.
DefaultRetries == 3

Scalars ==
  {JNull, JBool(TRUE), JBool(FALSE), JNum(0), JNum(5), JStr("", {}),
   JStr("tin", {}), JStr("tin", {1, 2, 3}), JStr("box", {1}), JStr("sleeve", {}),
   JStr("humidor", {}), JStr("humidor", {1}), JStr("other", {}), JStr("other", {1})}

\* Values found under a packaging field: scalars, and containers that hold the field again.
TypeValues ==
  Scalars \cup
  {JObj(<<"quantity_type">>, <<JStr("humidor", {})>>),
   JArr(<<JObj(<<"quantity_type">>, <<JStr("tin", {1})>>)>>)}

TypeKeys == {"quantity_type", "package_type"}

Offers ==
  {JObj(<<"quantity", k>>, <<JNum(1), v>>) : k \in TypeKeys, v \in TypeValues} \cup
  {JObj(<<"package_type", "quantity_type", "currency">>, <<v, w, JNull>>) :
     v \in {JStr("tin", {}), JStr("humidor", {})},
     w \in {JStr("box", {1}), JStr("humidor", {1}), JNull}}

SomeOffers ==
  {JObj(<<"quantity_type">>, <<JStr("humidor", {1})>>),
   JObj(<<"quantity_type">>, <<JStr("tin", {1, 2, 3})>>),
   JObj(<<"package_type">>, <<JStr("case", {})>>),
   JNum(0)}

\* An offer, a vitola and a product in the shape of the schema sent for inference
\* (EXAMPLE_EXTRACTION); amounts are in cents.
Offer(packageType) ==
  JObj(<<"current_price", "msrp", "savings", "currency", "package_quantity", "package_type",
         "cigars_per_package", "total_cigars", "availability">>,
       <<JNum(17500), JNum(20000), JNum(2500), JStr("usd", {1, 2, 3}), JNum(1), packageType,
         JNum(10), JNum(10), JBool(TRUE)>>)

Vitola(offers) ==
  JObj(<<"name", "shape", "size", "offers">>,
       <<JStr("figurado", {1}), JStr("figurado", {}),
         JObj(<<"length", "length_unit", "ring_gauge", "display">>,
              <<JNum(6), JStr("inches", {}), JNum(52), JStr("6 x 52", {})>>),
         JArr(offers)>>)

Product(vitolas) ==
  JObj(<<"product_name", "brand", "company", "description", "specifications", "vitolas">>,
       <<JStr("oliva serie v melanio", {1, 7, 13, 15}), JStr("oliva", {1}), JNull, JNull,
         JObj(<<"strength", "wrapper", "binder", "filler", "origin", "factory", "blender">>,
              <<JStr("medium to full", {1, 11}), JArr(<<JStr("ecuador sumatra", {1, 9})>>),
                JNull, JNull, JStr("nicaragua", {1}), JStr("tabsa", {1, 2, 3, 4, 5}),
                JArr(<<>>)>>),
         JArr(vitolas)>>)

Extraction(pageType, products) ==
  JObj(<<"page_type", "products">>, <<JStr(pageType, {}), JArr(products)>>)

\* A product in the shape of CigarProductSchema.
FlatProduct ==
  JObj(<<"product_name", "brand", "description", "specifications", "single_size",
         "single_price", "single_availability", "multiple_sizes">>,
       <<JStr("test cigar", {1, 6}), JStr("test brand", {1, 6}), JNull,
         JObj(<<"strength", "wrapper", "binder", "filler", "origin", "manufacturer", "blender">>,
              <<JStr("medium", {1}), JNull, JNull, JNull, JNull, JNull, JNull>>),
         JNull,
         JObj(<<"current_price", "msrp", "savings", "currency", "quantity_type">>,
              <<JNum(1599), JNull, JNull, JStr("usd", {1, 2, 3}), JStr("humidor", {})>>),
         JStr("in stock", {1, 4}), JNull>>)

PackageTypes ==
  {JStr("tin", {}), JStr("tin", {1, 2, 3}), JStr("humidor", {}), JStr("humidor", {1}),
   JStr("other", {}), JNull}

Extractions ==
  {Extraction(pt, <<Product(<<Vitola(<<Offer(v)>>)>>)>>) :
     pt \in {"blend_page", "unknown", "search_results"}, v \in PackageTypes} \cup
  {Extraction(pt, <<FlatProduct>>) : pt \in {"search_results", "single_product"}} \cup
  {Extraction("unknown", <<>>), Extraction("search_results", <<>>)}

SeqsUpTo(S, n) == UNION {[1..m -> S] : m \in 0..n}

\* v under d levels of nesting, alternately an unknown parent field and an array.
RECURSIVE Nest(_, _)
Nest(v, d) ==
  IF d = 0 THEN v
  ELSE IF d % 2 = 1 THEN JObj(<<"unknown_field", "name">>, <<Nest(v, d - 1), JStr("robusto", {1})>>)
  ELSE JArr(<<JNull, Nest(v, d - 1)>>)

Payloads ==
  Scalars \cup
  {Nest(o, d) : o \in Offers, d \in 0..MaxDepth} \cup
  {JArr(q) : q \in SeqsUpTo(SomeOffers, MaxLen)} \cup
  {JObj(<<>>, <<>>)} \cup
  Extractions

(***************************************************************************)
(* The payloads the validation scripts hand to CigarExtractionSchema       *)
(* (src/src/test-real-data-validation.ts, src/tests/test-schema-validation.ts). *)
(***************************************************************************)
\* The index of an array element as a path names it, back to its position.
PositionOf(v, name) == CHOOSE i \in 1..Len(v.kids) : ToString(i - 1) = name

\* delete obj[key]
RemoveKey(obj, key) ==
  LET keep == SelectSeq([i \in 1..Len(obj.keys) |-> i], LAMBDA i : obj.keys[i] # key)
  IN  JObj([i \in 1..Len(keep) |-> obj.keys[keep[i]]], [i \in 1..Len(keep) |-> obj.kids[keep[i]]])

\* v with the property at path deleted.
RECURSIVE Without(_, _)
Without(v, path) ==
  IF Len(path) = 1 THEN RemoveKey(v, path[1])
  ELSE IF v.t = "array"
  THEN [v EXCEPT !.kids[PositionOf(v, path[1])] = Without(@, Tail(path))]
  ELSE Put(v, path[1], Without(Get(v, path[1]), Tail(path)))

\* v with the property at path set to val.
RECURSIVE WithValue(_, _, _)
WithValue(v, path, val) ==
  IF Len(path) = 1 THEN Put(v, path[1], val)
  ELSE IF v.t = "array"
  THEN [v EXCEPT !.kids[PositionOf(v, path[1])] = WithValue(@, Tail(path), val)]
  ELSE Put(v, path[1], WithValue(Get(v, path[1]), Tail(path), val))

\* The paths in v of the properties whose zod schema is .nullable().
RECURSIVE NullablePaths(_, _, _)
NullablePaths(schema, v, path) ==
  (IF schema.nullable /\ path # <<>> THEN {path} ELSE {}) \cup
  (CASE schema.k = "array" /\ v.t = "array" ->
          UNION {NullablePaths(schema.subs[1], v.kids[i], Append(path, ToString(i - 1))) :
                   i \in 1..Len(v.kids)}
     [] schema.k = "object" /\ v.t = "object" ->
          UNION {NullablePaths(schema.subs[j], Get(v, schema.fields[j]),
                               Append(path, schema.fields[j])) :
                   j \in 1..Len(schema.fields)}
     [] OTHER -> {})

Size ==
  JObj(<<"length", "length_unit", "ring_gauge", "display">>,
       <<JNum(6), JStr("inches", {}), JNum(50), JStr("6 x 50", {})>>)

\* price of the validation scripts: PriceSchema's fields, quantity and quantity_type.
Price(quantityType) ==
  JObj(<<"current_price", "msrp", "savings", "currency", "quantity", "quantity_type">>,
       <<JNum(1599), JNum(1750), JNum(151), JStr("usd", {1, 2, 3}), JNum(1), quantityType>>)

\* A product in the shape of CigarProductSchema with no field null.
FullFlatProduct(quantityType) ==
  JObj(<<"product_name", "brand", "description", "specifications", "single_size",
         "single_price", "single_availability", "multiple_sizes">>,
       <<JStr("test cigar", {1, 6}), JStr("test brand", {1, 6}), JStr("test", {1}),
         JObj(<<"strength", "wrapper", "binder", "filler", "origin", "manufacturer", "blender">>,
              <<JStr("full", {1}), JStr("natural", {1}), JStr("nicaraguan", {1}),
                JStr("nicaraguan", {1}), JStr("nicaragua", {1}), JStr("padron", {1}),
                JStr("padron", {1})>>),
         Size, Price(quantityType), JStr("in stock", {1, 4}),
         JArr(<<JObj(<<"size", "price", "availability">>,
                     <<Size, Price(quantityType), JStr("in stock", {1, 4})>>)>>)>>)

FullFlatExtraction == Extraction("single_product_multiple_sizes", <<FullFlatProduct(JStr("box", {}))>>)

\* testData of "Test 3: All new packaging types".
SizeOptionsExtraction(packagingType) ==
  Extraction("single_product",
    <<JObj(<<"product_name", "brand", "description", "specifications", "size_options">>,
           <<JStr("test", {1}), JStr("test brand", {1, 6}), JStr("test", {1}),
             JObj(<<"strength", "wrapper", "binder", "filler", "origin", "manufacturer",
                    "blender">>, [i \in 1..7 |-> JNull]),
             JArr(<<JObj(<<"size", "price", "availability">>,
                         <<Size, [Price(packagingType) EXCEPT !.kids[2] = JNull, !.kids[3] = JNull],
                           JStr("in stock", {1, 4})>>)>>)>>)>>)

VitolaNamed(name, offers) == Put(Vitola(offers), "name", name)

\* A box of 20 at 349.99, MSRP 437.50, savings 87.51.
BoxOf20 ==
  JObj(<<"current_price", "msrp", "savings", "currency", "package_quantity", "package_type",
         "cigars_per_package", "total_cigars", "availability">>,
       <<JNum(34999), JNum(43750), JNum(8751), JStr("usd", {1, 2, 3}), JNum(1),
         JStr("box", {}), JNum(20), JNum(20), JBool(TRUE)>>)

\* "Robusto" with one offer, "Toro" with a single and a box of 20.
RobustoAndToro ==
  Product(<<VitolaNamed(JStr("robusto", {1}), <<Offer(JStr("single", {}))>>),
            VitolaNamed(JStr("toro", {1}), <<Offer(JStr("single", {})), BoxOf20>>)>>)

\* page_type values of CigarExtractionSchema, of the schema sent for inference, and of
\* the validation scripts.
PageTypes ==
  page_type_enum \cup
  {"single_product_single_size", "single_product_multiple_sizes", "multiple_products",
   "search_results", "single_product"}

PackagingValues ==
  {JStr(x, {}) : x \in package_type_enum \cup {"humidor"}} \cup {JStr("tin", {1})}

ValidationInputs ==
  {Extraction(pt, <<Product(<<Vitola(<<Offer(v)>>)>>)>>) :
     pt \in PageTypes, v \in PackagingValues \cup {JNull}} \cup
  {Extraction(pt, <<FullFlatProduct(v)>>) : pt \in PageTypes, v \in PackagingValues} \cup
  {Extraction(pt, <<>>) : pt \in PageTypes} \cup
  {Extraction(pt, <<RobustoAndToro>>) : pt \in PageTypes} \cup
  {SizeOptionsExtraction(v) : v \in PackagingValues} \cup
  {Without(FullFlatExtraction, p) :
     p \in NullablePaths(CigarExtractionSchema, FullFlatExtraction, <<>>)} \cup
  {WithValue(FullFlatExtraction, p, JNull) :
     p \in NullablePaths(CigarExtractionSchema, FullFlatExtraction, <<>>)} \cup
  {Without(Extraction("blend_page", <<RobustoAndToro>>), <<"products", "0", "specifications", "strength">>),
   Without(FullFlatExtraction, <<"products">>), Without(FullFlatExtraction, <<"page_type">>)}

\* JSON.stringify(value, null, 2): the property names and the scalars in document order.
RECURSIVE Stringify(_)
RECURSIVE StringifyAll(_, _, _)
StringifyAll(keys, kids, i) ==
  IF i > Len(kids) THEN <<>>
  ELSE (IF keys = <<>> THEN <<>> ELSE <<keys[i], ":">>) \o Stringify(kids[i])
       \o StringifyAll(keys, kids, i + 1)

Stringify(v) ==
  CASE v.t = "null" -> <<"null">>
    [] v.t = "boolean" -> <<IF v.b THEN "true" ELSE "false">>
    [] v.t = "number" -> <<ToString(v.n)>>
    [] v.t = "string" -> <<"\"", v.s, "\"">>
    [] v.t = "array" -> <<"[">> \o StringifyAll(<<>>, v.kids, 1) \o <<"]">>
    [] v.t = "object" -> <<"{">> \o StringifyAll(v.keys, v.kids, 1) \o <<"}">>
    [] OTHER -> <<>>

(***************************************************************************)
(* What one inference request can come back with.                          *)
(*   kind "error"     : openai.chat.completions.create rejects             *)
(*   kind "nochoices" : a response without a choices array                 *)
(*   kind "content"   : response.choices[0]?.message?.content is content;  *)
(*                      wellFormed says whether the text is JSON, and tree *)
(*                      is the value it denotes                            *)
(***************************************************************************)
Response(kind, content, wellFormed, tree) ==
  [kind |-> kind, content |-> content, wellFormed |-> wellFormed, tree |-> tree]

Responses ==
  {Response("error", Undefined, FALSE, Undefined),
   Response("nochoices", Undefined, FALSE, Undefined),
   Response("content", Undefined, FALSE, Undefined),
   Response("content", JNull, FALSE, Undefined),
   Response("content", JStr("", {}), FALSE, Undefined),
   Response("content", JStr("not json", {}), FALSE, Undefined)} \cup
  {Response("content", JStr("json text", {}), TRUE, p) : p \in Payloads}

\* What a response is, for the record of requests: an API error, a response without
\* choices, one without content, or one with a text.
Summary(resp) ==
  IF resp.kind # "content" THEN resp.kind
  ELSE IF ~Truthy(resp.content) THEN "empty" ELSE "text"

\* JSON.parse(content): the value the text denotes, a SyntaxError on any other text.
JSONParse(resp) ==
  IF resp.wellFormed THEN resp.tree ELSE Thrown("SyntaxError")

Err(name, message) == [name |-> name, message |-> message, cause |-> ""]

NoError == Err("", "")

ApiError == Err("Error", "API error")

NoChoicesError == Err("TypeError", "Cannot read properties of undefined")

NoContentError == Err("Error", "No content received from OpenAI API")

ParseError == Err("Error", "Failed to parse OpenAI response as JSON")

(***************************************************************************)
(* One run of the function given to pRetry: [ok, value, parsed, warn, err] *)
(***************************************************************************)
Outcome(ok, value, parsed, warn, err) ==
  [ok |-> ok, value |-> value, parsed |-> parsed, warn |-> warn, err |-> err]

Failure(err) == Outcome(FALSE, Undefined, Undefined, <<>>, err)

\* RunAttempt that answers a response without content with an empty extraction.
RunAttempt_DefaultOnEmpty(resp) ==
  IF resp.kind = "error" THEN Failure(ApiError)
  ELSE IF resp.kind = "nochoices" THEN Failure(NoChoicesError)
  ELSE IF ~Truthy(resp.content)
  THEN Outcome(TRUE, Extraction("unknown", <<>>), Extraction("unknown", <<>>), <<>>, NoError)
  ELSE LET parsed == JSONParse(resp)
       IN  IF parsed.t = "throw" THEN Failure(ParseError)
           ELSE LET sanitizedData == sanitizeExtractionData(parsed)
                IN  IF sanitizedData.val.t = "throw"
                    THEN Failure(Err(sanitizedData.val.s, "sanitizeExtractionData"))
                    ELSE Outcome(TRUE, sanitizedData.val, parsed, sanitizedData.warn, NoError)

RunAttempt(resp) ==
  IF resp.kind = "error" THEN Failure(ApiError)
  ELSE IF resp.kind = "nochoices" THEN Failure(NoChoicesError)
  ELSE IF ~Truthy(resp.content) THEN Failure(NoContentError)
  ELSE LET parsed == JSONParse(resp)
       IN  IF parsed.t = "throw" THEN Failure(ParseError)
           ELSE LET sanitizedData == sanitizeExtractionData(parsed)
                IN  IF sanitizedData.val.t = "throw"
                    THEN Failure(Err(sanitizedData.val.s, "sanitizeExtractionData"))
                    ELSE Outcome(TRUE, sanitizedData.val, parsed, sanitizedData.warn, NoError)

(***************************************************************************)
(* extractData(content, screenshotPath, config)                            *)
(***************************************************************************)
NoRetryOptions == -1

Config(strategy, model, systemPrompt, retries) ==
  [strategy |-> strategy, model |-> model, systemPrompt |-> systemPrompt, retries |-> retries]

validStrategies == {"html-only", "markdown-only", "html-with-image", "markdown-with-image"}

Configs ==
  {Config("html-only", "gpt-4o-2024-08-06", "prompt", r) : r \in {NoRetryOptions} \cup 0..MaxRetries} \cup
  {Config("markdown-with-image", "gpt-4o-2024-08-06", "prompt", r) : r \in 0..MaxRetries} \cup
  {Config("", "gpt-4o-2024-08-06", "prompt", 1),
   Config("html-only", "", "prompt", 1),
   Config("html-only", "gpt-4o-2024-08-06", "", 1),
   Config("pdf-only", "gpt-4o-2024-08-06", "prompt", 1)}

\* The screenshot file handed to extractData: no path, a readable file, or an unreadable one.
Screenshots == {"null", "readable", "unreadable"}

\* validateExtractionConfig: the message of the error it throws, "" when it returns.
validateExtractionConfig(cfg) ==
  IF cfg.strategy = "" THEN "Extraction strategy is required"
  ELSE IF cfg.model = "" THEN "Model is required"
  ELSE IF cfg.systemPrompt = "" THEN "System prompt is required"
  ELSE IF cfg.strategy \notin validStrategies THEN "Invalid extraction strategy"
  ELSE ""

\* strategy.includes('with-image')
WithImage(strategy) == strategy \in {"html-with-image", "markdown-with-image"}

\* prepareMessages: the message of the error it throws, "" when it returns.
prepareMessages(strategy, shot) ==
  IF WithImage(strategy) /\ shot # "null" /\ shot = "unreadable"
  THEN "Failed to prepare image content"
  ELSE ""

\* The configured retries ignored: no run is ever repeated.
Retries_Ignored(cfg) == 0

\* config.retryOptions || { retries: 3, minTimeout: 1000, factor: 2 }
Retries(cfg) == IF cfg.retries = NoRetryOptions THEN DefaultRetries ELSE cfg.retries

\* RetryOperation.mainError of p-retry's retry operation: the error whose message has,
\* latest in the list, reached the highest count.
RECURSIVE MainErrorFrom(_, _, _, _)
MainErrorFrom(errs, i, best, bestCount) ==
  IF i > Len(errs) THEN best
  ELSE LET count == Cardinality({j \in 1..i : errs[j].message = errs[i].message})
       IN  IF count >= bestCount THEN MainErrorFrom(errs, i + 1, errs[i], count)
           ELSE MainErrorFrom(errs, i + 1, best, bestCount)

\* The error of the last attempt.
MainError_Last(errs) == errs[Len(errs)]

MainError(errs) == MainErrorFrom(errs, 1, NoError, 0)

\* p-retry stops at once on a TypeError that is not a network error.
Retriable(err) == err.name # "TypeError"

\* extractData's catch: new Error(`Data extraction failed: ${errorDetails.message}`)
ExtractionFailed(message) ==
  [name |-> "Error", message |-> "Data extraction failed", cause |-> message]

(***************************************************************************)
(* src/src/config/extraction.ts: the extraction configurations.            *)
(* temperature is in tenths; indexed is the number of index properties     *)
(* ("0", "1", ...) the object carries beside the named ones.               *)
(***************************************************************************)
ExtractionConfig(strategy, model, maxTokens, temperature, systemPrompt, retries, minTimeout) ==
  [strategy |-> strategy, model |-> model, maxTokens |-> maxTokens,
   temperature |-> temperature, systemPrompt |-> systemPrompt, retries |-> retries,
   minTimeout |-> minTimeout, indexed |-> 0]

DEFAULT_SYSTEM_PROMPT == "You are a cigar product data extraction specialist"

DEFAULT_EXTRACTION_CONFIG ==
  ExtractionConfig("markdown-with-image", "gpt-4o-2024-08-06", 4096, 0, DEFAULT_SYSTEM_PROMPT,
                   DefaultRetries, 1000)

\* An argument of createExtractionConfig: undefined, a string, or an object that has
\* the properties named in given, with the values they have in vals.
Arg(kind, s, given, vals) == [kind |-> kind, s |-> s, given |-> given, vals |-> vals]

NoArg == Arg("undefined", "", {}, DEFAULT_EXTRACTION_CONFIG)

StringArg(s) == Arg("string", s, {}, DEFAULT_EXTRACTION_CONFIG)

ObjectArg(given, vals) == Arg("object", "", given, vals)

\* { ...base, ...overrides }: every own property of overrides replaces the base's; a
\* string spreads into one index property for each of its characters.
Spread(base, overrides) ==
  IF overrides.kind = "undefined" THEN base
  ELSE IF overrides.kind = "string" THEN [base EXCEPT !.indexed = Len(overrides.s)]
  ELSE [strategy |-> IF "strategy" \in overrides.given THEN overrides.vals.strategy
                     ELSE base.strategy,
        model |-> IF "model" \in overrides.given THEN overrides.vals.model ELSE base.model,
        maxTokens |-> IF "maxTokens" \in overrides.given THEN overrides.vals.maxTokens
                      ELSE base.maxTokens,
        temperature |-> IF "temperature" \in overrides.given THEN overrides.vals.temperature
                        ELSE base.temperature,
        systemPrompt |-> IF "systemPrompt" \in overrides.given THEN overrides.vals.systemPrompt
                         ELSE base.systemPrompt,
        retries |-> IF "retryOptions" \in overrides.given THEN overrides.vals.retries
                    ELSE base.retries,
        minTimeout |-> IF "retryOptions" \in overrides.given THEN overrides.vals.minTimeout
                       ELSE base.minTimeout,
        indexed |-> base.indexed]

\* createExtractionConfig(overrides = {}): it has one parameter; a second argument is
\* not looked at.
createExtractionConfig(first, second) == Spread(DEFAULT_EXTRACTION_CONFIG, first)

\* getRecommendedConfig(useCase): the preset of a use case, the defaults for any other.
getRecommendedConfig(useCase) ==
  CASE useCase = "fast" ->
         Spread(DEFAULT_EXTRACTION_CONFIG,
                ObjectArg({"strategy", "maxTokens"},
                          [DEFAULT_EXTRACTION_CONFIG EXCEPT !.strategy = "markdown-only",
                                                            !.maxTokens = 2048]))
    [] useCase = "accurate" ->
         Spread(DEFAULT_EXTRACTION_CONFIG,
                ObjectArg({"strategy", "maxTokens", "temperature"},
                          [DEFAULT_EXTRACTION_CONFIG EXCEPT !.strategy = "markdown-with-image",
                                                            !.maxTokens = 4096,
                                                            !.temperature = 0]))
    [] useCase = "comprehensive" ->
         Spread(DEFAULT_EXTRACTION_CONFIG,
                ObjectArg({"strategy", "maxTokens", "temperature", "retryOptions"},
                          [DEFAULT_EXTRACTION_CONFIG EXCEPT !.strategy = "html-with-image",
                                                            !.maxTokens = 4096,
                                                            !.temperature = 0,
                                                            !.retries = 5,
                                                            !.minTimeout = 2000]))
    [] OTHER -> DEFAULT_EXTRACTION_CONFIG

\* The keys of MODEL_CONFIGS; every entry has supportsImages: true.
MODEL_CONFIGS ==
  {"gpt-4o-2024-08-06", "gpt-4o", "o1", "o1-preview", "o3", "gpt-4.1", "gpt-4.5-preview",
   "gpt-4.1-mini", "o4-mini"}

\* Names every object literal inherits from Object.prototype.
InheritedNames == {"constructor", "toString", "valueOf", "hasOwnProperty"}

\* MODEL_CONFIGS[model]: the entry, an inherited member (truthy, without supportsImages),
\* or undefined.
ModelConfig(model) ==
  [truthy |-> model \in MODEL_CONFIGS \cup InheritedNames,
   supportsImages |-> model \in MODEL_CONFIGS]

\* validateExtractionConfig of config/extraction.ts: the message of the error it throws,
\* "" when it returns true.
checkExtractionConfig(cfg) ==
  LET modelConfig == ModelConfig(cfg.model)
  IN  IF ~modelConfig.truthy THEN "Unsupported model"
      ELSE IF WithImage(cfg.strategy) /\ ~modelConfig.supportsImages
      THEN "Model does not support images"
      ELSE ""

Presets == {"fast", "accurate", "comprehensive"}

Overrides ==
  {NoArg,
   ObjectArg({}, DEFAULT_EXTRACTION_CONFIG),
   ObjectArg({"strategy", "temperature"},
             [DEFAULT_EXTRACTION_CONFIG EXCEPT !.strategy = "markdown-with-image",
                                               !.temperature = 1]),
   ObjectArg({"model"}, [DEFAULT_EXTRACTION_CONFIG EXCEPT !.model = "gpt-4o"]),
   ObjectArg({"model", "strategy"},
             [DEFAULT_EXTRACTION_CONFIG EXCEPT !.model = "constructor",
                                               !.strategy = "markdown-only"]),
   ObjectArg({"model"}, [DEFAULT_EXTRACTION_CONFIG EXCEPT !.model = "constructor"]),
   ObjectArg({"model"}, [DEFAULT_EXTRACTION_CONFIG EXCEPT !.model = "gpt-3.5-turbo"]),
   ObjectArg({"model", "maxTokens"},
             [DEFAULT_EXTRACTION_CONFIG EXCEPT !.model = "o3", !.maxTokens = 100000]),
   ObjectArg({"systemPrompt"}, [DEFAULT_EXTRACTION_CONFIG EXCEPT !.systemPrompt = ""]),
   ObjectArg({"systemPrompt", "retryOptions"},
             [DEFAULT_EXTRACTION_CONFIG EXCEPT !.systemPrompt = "extract", !.retries = 0,
                                               !.minTimeout = 0])}

\* The arguments the scripts and callers pass first: nothing, a preset's name, overrides.
FirstArgs == {StringArg(x) : x \in Presets \cup {"thorough"}} \cup Overrides

\* invalidConfig of the configuration test, and configurations written out by hand.
LiteralConfigs ==
  {[ExtractionConfig("html-with-image", m, 4096, 0, "", 3, 1000) EXCEPT !.strategy = st] :
     m \in MODEL_CONFIGS \cup {"constructor", "gpt-3.5-turbo", ""},
     st \in {"html-with-image", "markdown-only"}}

(***************************************************************************)
(* runScrapingProcess of src/src/main.ts with saveExtractedData of         *)
(* src/unnamed/part_005 and sendImageToOpenAI, sendToOpenAI of             *)
(* src/src/extractor.ts.                                                   *)
(***************************************************************************)
\* retryOptions of runScrapingProcess.
RunRetries == 3

\* What the inference collaborator may answer in runScrapingProcess.
RunResponses ==
  {Response("error", Undefined, FALSE, Undefined),
   Response("content", Undefined, FALSE, Undefined),
   Response("content", JStr("not json", {}), FALSE, Undefined)} \cup
  {Response("content", JStr("json text", {}), TRUE, p) :
     p \in {JNum(5), JObj(<<>>, <<>>), Extraction("unknown", <<>>), FullFlatExtraction,
            Extraction("blend_page", <<RobustoAndToro>>),
            Extraction("search_results", <<>>)}}

\* response.choices[0]?.message?.content || '': the text, '' when there is none.
ContentOrEmpty(resp) ==
  IF Truthy(resp.content) THEN resp ELSE Response("content", JStr("", {}), FALSE, Undefined)

\* saveExtractedData: the message of the error it throws before writing, "" when it
\* writes the file.
saveExtractedData(content) ==
  IF JSONParse(content).t = "throw" THEN "Invalid JSON content" ELSE ""

VARIABLES
  pc,        \* "start", "attempt" (a run of pRetry's function is due), "returned", "thrown"
  config,    \* extractData's config argument
  shot,      \* extractData's screenshotPath argument
  responses, \* what each inference request so far came back with: Summary(resp)
  errors,    \* the errors p-retry's operation has recorded
  parsed,    \* the payload parsed in the attempt that succeeded
  result,    \* the value extractData returned
  warnings,  \* console.warn lines of the sanitizer
  error,     \* the error extractData threw
  check,     \* a validation script: the payload given, the value parsed, the issues
  made,      \* a configuration script: the arguments, the configuration, the verdict
  run,       \* runScrapingProcess: its position, the request under way, the files written
  retrying,  \* a call of retry(fn, retries, delay)
  manager,   \* a FileManager and the writeFile, saveScreenshot calls under way on it
  scraping,  \* a call of scrape
  loading,   \* cachedConfig and the loadConfig, resetConfigCache calls made
  chunking,  \* a call of extractStructuredDataFromChunks
  heap       \* the objects in memory around a call of sanitizeExtractionData

vars ==
  <<pc, config, shot, responses, errors, parsed, result, warnings, error, check, made, run,
    retrying, manager, scraping, loading, chunking, heap>>

\* The variables of the collaborators of the extraction core.
collaborators == <<retrying, manager, scraping, loading, chunking, heap>>

\* The variables of extractData, of the scripts and of runScrapingProcess.
extraction == <<pc, config, shot, responses, errors, parsed, result, warnings, error>>

scripts == <<check, made, run>>

NoCheck ==
  [pc |-> "idle", data |-> Undefined, sanitized |-> FALSE, value |-> Undefined, issues |-> {}]

NoConfig ==
  [pc |-> "idle", first |-> NoArg, second |-> NoArg, cfg |-> DEFAULT_EXTRACTION_CONFIG,
   message |-> ""]

NoRun ==
  [pc |-> "idle", attempts |-> 0, content |-> Response("content", Undefined, FALSE, Undefined),
   files |-> {}, extracted |-> <<>>]

\* No script and no run of runScrapingProcess is under way.
NoScripts ==
  /\ check = NoCheck
  /\ made = NoConfig
  /\ run = NoRun

\* extractData is not running.
NoExtraction ==
  /\ pc = "idle"
  /\ config = Config("", "", "", 0)
  /\ shot = "null"
  /\ responses = <<>>
  /\ errors = <<>>
  /\ parsed = Undefined
  /\ result = Undefined
  /\ warnings = <<>>
  /\ error = NoError

(***************************************************************************)
(* retry(fn, retries, delay) of src/src/main.ts.                           *)
(***************************************************************************)
\* config.maxRetries and config.retryDelay, the defaults of retries and delay.
maxRetries == 3

retryDelay == 2000

\* What one call of fn comes to: it returns (0), or it throws an error whose
\* response.status is the number; NoStatus is an error without a response.
NoStatus == -1

FnOutcomes == {0, 429, 500, NoStatus}

\* The next delay always the same: no backoff.
Backoff_Constant(delay) == delay

\* delay * 2
Backoff(delay) == delay * 2

\* retries > 0 && error.response?.status === 429
RetryAgain(retries, status) == retries > 0 /\ status = 429

NoRetry ==
  [pc |-> "idle", retries |-> 0, delay |-> 0, retries0 |-> 0, delay0 |-> 0, calls |-> 0,
   failures |-> <<>>, waits |-> <<>>]

(***************************************************************************)
(* FileManager of src/src/utils/config.ts.                                 *)
(***************************************************************************)
\* How many writeFile, saveScreenshot calls are made on the FileManager.
MaxCalls == 2

\* The files of a FileManager's folder, by content type.
ContentTypes == {"rawHtml", "extractedData", "screenshot"}

\* An entry of metadata.createdFiles; call stands for the entry's timestamp.
Entry(file, call) == [filePath |-> file, call |-> call]

\* this.metadata.createdFiles.push(entry)
Push(createdFiles, entry) == Append(createdFiles, entry)

\* createdFiles : this.metadata.createdFiles
\* written      : the files written to the folder, in the order the writes completed
\* saved, json  : whether metadata.json exists, and the createdFiles it holds
\* calls        : the calls made, each [pc, file, snapshot]: where the call is
\*                ("writing", "saving", "returned", "thrown"), the file it writes, and
\*                the metadataContent it is saving
NoManager ==
  [pc |-> "idle", createdFiles |-> <<>>, written |-> <<>>, saved |-> FALSE, json |-> <<>>,
   calls |-> <<>>]

(***************************************************************************)
(* scrape of src/src/core/scraper.ts.                                      *)
(***************************************************************************)
\* The awaited steps of scrape once the browser is connected.
ScrapeSteps ==
  <<"newPage", "setViewport", "goto", "waitAfterLoad", "content", "screenshot",
    "saveScreenshotToTemp", "close">>

\* A failing disconnect makes scrape throw.
AfterFinally_DisconnectThrows(pending, disconnectFailed) ==
  IF disconnectFailed THEN "thrown" ELSE pending

\* How scrape ends after the finally block: as the try or the catch block decided.
AfterFinally(pending, disconnectFailed) == pending

\* browser     : whether puppeteer.connect resolved
\* step        : the step of ScrapeSteps that is due
\* failed      : the step that threw, "" when none did
\* pending     : "returned" or "thrown", what scrape does once finally is through
\* disconnects : the calls of browser.disconnect
\* warned      : whether the failing disconnect was logged
\* error       : the message of the error thrown
NoScrape ==
  [pc |-> "idle", viewport |-> FALSE, waitAfterLoad |-> FALSE, browser |-> FALSE, step |-> 0,
   failed |-> "", pending |-> "", disconnects |-> 0, warned |-> FALSE,
   error |-> [message |-> "", cause |-> ""]]

(***************************************************************************)
(* loadConfig, resetConfigCache, validateConfig of src/src/utils/config.ts *)
(***************************************************************************)
\* How many loadConfig and resetConfigCache calls are made.
MaxLoads == 4

requiredSections ==
  <<"openai", "extraction_strategies", "default_extraction_config", "preset_configs",
    "html_processing", "system_prompts">>

\* config[section] and config.a.b: undefined on a string, a number or a boolean, a
\* TypeError on null and undefined.
Member(v, key) ==
  IF v.t \in {"null", "undefined", "throw"} THEN Thrown("TypeError") ELSE Get(v, key)

\* validateConfig: the message of the error it throws, "" when it returns.
validateConfig(cfg) ==
  IF cfg.t \in {"null", "undefined"} THEN "TypeError"
  ELSE IF \E i \in 1..Len(requiredSections) : ~Truthy(Member(cfg, requiredSections[i]))
  THEN "Missing required configuration section"
  ELSE IF ~Truthy(Member(Member(cfg, "openai"), "extraction"))
  THEN "Invalid OpenAI configuration structure"
  ELSE IF \/ ~Truthy(Member(Member(cfg, "html_processing"), "default_clean_options"))
          \/ ~Truthy(Member(Member(cfg, "html_processing"), "default_process_options"))
  THEN "Invalid HTML processing configuration structure"
  ELSE IF ~Truthy(Member(Member(cfg, "system_prompts"), "default"))
  THEN "Missing default system prompt"
  ELSE ""

\* A configuration as yaml.load returns it from a complete config.yaml; name tells the
\* files apart.
AppConfig(name) ==
  JObj(requiredSections \o <<"default_output_directory">>,
       <<JObj(<<"default_model", "extraction">>,
              <<JStr("gpt-4o-2024-08-06", {}), JObj(<<"max_tokens">>, <<JNum(4096)>>)>>),
         JObj(<<"markdown-only">>, <<JStr("markdown", {})>>),
         JObj(<<"strategy">>, <<JStr("markdown-with-image", {})>>),
         JObj(<<"fast">>, <<JObj(<<"strategy">>, <<JStr("markdown-only", {})>>)>>),
         JObj(<<"default_clean_options", "default_process_options">>,
              <<JObj(<<"removeScripts">>, <<JBool(TRUE)>>),
                JObj(<<"useMarkdown">>, <<JBool(TRUE)>>)>>),
         JObj(<<"default">>, <<JStr("prompt", {})>>),
         JStr(name, {})>>)

\* What a path holds: no readable file, text that is no YAML, or YAML for a value.
FileContent(kind, tree) == [kind |-> kind, tree |-> tree]

Unreadable == FileContent("unreadable", Undefined)

NotYaml == FileContent("notyaml", Undefined)

Yaml(tree) == FileContent("yaml", tree)

ConfigTrees ==
  {AppConfig("default"),
   JNull,
   JStr("openai", {}),
   RemoveKey(AppConfig("default"), "system_prompts"),
   Put(AppConfig("default"), "openai", JObj(<<"default_model">>, <<JStr("o3", {})>>)),
   Put(AppConfig("default"), "openai", JStr("o3", {})),
   Put(AppConfig("default"), "html_processing",
       JObj(<<"default_clean_options">>, <<JObj(<<>>, <<>>)>>)),
   Put(AppConfig("default"), "system_prompts", JObj(<<"default">>, <<JStr("", {})>>))}

\* path.join(process.cwd(), 'config.yaml')
defaultConfigPath == "config.yaml"

ConfigPaths == {defaultConfigPath, "a.yaml", "b.yaml"}

\* The configPath arguments: "" is loadConfig().
ConfigPathArgs == {"", "a.yaml", "b.yaml"}

\* configPath || defaultConfigPath
finalConfigPath(configPath) == IF configPath = "" THEN defaultConfigPath ELSE configPath

Disks ==
  {[path \in ConfigPaths |->
      CASE path = defaultConfigPath -> d
        [] path = "a.yaml" -> a
        [] OTHER -> b] :
     d \in {Unreadable, NotYaml} \cup {Yaml(t) : t \in ConfigTrees},
     a \in {Yaml(AppConfig("a")), Unreadable},
     b \in {Yaml(AppConfig("b")), Yaml(RemoveKey(AppConfig("b"), "openai"))}}

\* The cache is never consulted.
Cached_Never(cachedConfig) == FALSE

\* if (cachedConfig)
Cached(cachedConfig) == Truthy(cachedConfig)

\* cachedConfig is set although the load failed.
CacheAfterLoad_Always(loaded, message) == loaded

\* cachedConfig after the try block of loadConfig: config once validateConfig returned,
\* still null when anything threw.
CacheAfterLoad(loaded, message) == IF message = "" THEN loaded ELSE JNull

\* The try block of loadConfig on a file: the value loaded and the message of the error
\* thrown, "" when none is.
LoadFile(content) ==
  IF content.kind = "unreadable" THEN [config |-> Undefined, message |-> "ENOENT"]
  ELSE IF content.kind = "notyaml" THEN [config |-> Undefined, message |-> "YAMLException"]
  ELSE [config |-> content.tree, message |-> validateConfig(content.tree)]

\* cachedConfig : the module's cache, null when empty
\* disk         : what each path holds
\* calls        : the calls made, each [op, configPath, read, threw, value, cached]:
\*                loadConfig or resetConfigCache, the configPath argument, the path it
\*                read ("" when it read none), whether it threw, the value it returned,
\*                and cachedConfig after it
NoLoad ==
  [pc |-> "idle", cachedConfig |-> JNull, disk |-> [path \in ConfigPaths |-> Unreadable],
   calls |-> <<>>]

(***************************************************************************)
(* extractStructuredDataFromChunks and stripCodeBlocks of src/src/main.ts. *)
(* A string is the sequence of its tokens: a code fence, white space, a    *)
(* JSON text or other text.                                                *)
(***************************************************************************)
\* How many chunks htmlChunks holds at most.
MaxChunks == 3

\* The two code fences: three backquotes, with and without json behind them.
JsonFence == "fence-json"

Fence == "fence"

Space == " "

BrandText == "{\"brand\":\"cohiba\"}"

\* The tokens that are JSON texts, and the values JSON.parse returns for them.
JsonTexts == {"{}", BrandText, "null"}

JsonValue(text) ==
  CASE text = "{}" -> JObj(<<>>, <<>>)
    [] text = BrandText -> JObj(<<"brand">>, <<JStr("cohiba", {})>>)
    [] OTHER -> JNull

\* String.prototype.trim
RECURSIVE TrimStart(_)
TrimStart(text) ==
  IF text # <<>> /\ Head(text) = Space THEN TrimStart(Tail(text)) ELSE text

RECURSIVE TrimEnd(_)
TrimEnd(text) ==
  IF text # <<>> /\ text[Len(text)] = Space THEN TrimEnd(SubSeq(text, 1, Len(text) - 1))
  ELSE text

Trim(text) == TrimEnd(TrimStart(text))

IsFence(token) == token \in {JsonFence, Fence}

\* content.replace(fences, '').trim(): both fences are removed wherever they are.
stripCodeBlocks(content) == Trim(SelectSeq(content, LAMBDA token : ~IsFence(token)))

\* JSON.parse: white space around one JSON text is allowed, anything else is a SyntaxError.
ParseText(text) ==
  IF Len(Trim(text)) = 1 /\ Trim(text)[1] \in JsonTexts THEN JsonValue(Trim(text)[1])
  ELSE Thrown("SyntaxError")

\* message.content of a response: a string, or missing.
MissingContent == <<"undefined">>

\* response.data.choices?.[0]?.message?.content?.trim() || '{}'
rawContent(content) ==
  IF content = MissingContent \/ Trim(content) = <<>> THEN <<"{}">> ELSE Trim(content)

Contents ==
  {MissingContent,
   <<>>,
   <<Space>>,
   <<"{}">>,
   <<Space, BrandText, Space>>,
   <<JsonFence, Space, BrandText, Space, Fence>>,
   <<"Here is the data:", Space, BrandText>>,
   <<Fence>>}

\* What the calls of axios.post for one chunk come to, in order, the last one repeating:
\* 0 is a response, any other number the status of the error.
Requests == {<<0>>, <<429, 0>>, <<500>>, <<429>>}

\* What retry(fn) comes to on a request with retries left: 0 when a call returned, else
\* the status of the error rethrown.
RECURSIVE RetryResult(_, _)
RetryResult(request, retries) ==
  IF Head(request) = 0 THEN 0
  ELSE IF RetryAgain(retries, Head(request))
  THEN RetryResult(IF Len(request) > 1 THEN Tail(request) ELSE request, retries - 1)
  ELSE Head(request)

\* The loop ends at the first chunk that fails.
NextChunk_StopsAtFailure(i, n, failed) == IF failed THEN n ELSE i + 1

\* i++ of the for loop, after the try block as well as after the catch block.
NextChunk(i, n, failed) == i + 1

\* chunks  : htmlChunks.length
\* i       : the loop index
\* results : the results array
\* log     : one entry per chunk processed, [chunk, request, content, ok, value]
NoChunks == [pc |-> "idle", chunks |-> 0, i |-> 0, results |-> <<>>, log |-> <<>>]

(***************************************************************************)
(* sanitizeExtractionData on the heap.  The objects and arrays of a tree   *)
(* live in cells, a cell's address being its index; a property or element  *)
(* is a slot: a primitive value, or the reference Ref(address).            *)
(***************************************************************************)
Ref(address) == [Blank EXCEPT !.t = "ref", !.n = address]

IsRef(slot) == slot.t = "ref"

\* How many objects and arrays a tree has.
RECURSIVE Containers(_)
RECURSIVE ContainersOf(_, _)
ContainersOf(trees, n) ==
  IF n = 0 THEN 0 ELSE ContainersOf(trees, n - 1) + Containers(trees[n])

Containers(tree) ==
  IF tree.t \notin {"array", "object"} THEN 0
  ELSE 1 + ContainersOf(tree.kids, Len(tree.kids))

\* JSON.parse builds the tree: the cells it allocates behind the first base cells, the
\* properties and elements of a container before the container itself, and the slot of
\* the tree.
RECURSIVE StoredCells(_, _)
RECURSIVE StoredKids(_, _, _)
StoredSlot(tree, base) ==
  IF tree.t \notin {"array", "object"} THEN tree ELSE Ref(base + Containers(tree))

StoredKids(trees, n, base) ==
  IF n = 0 THEN <<>>
  ELSE StoredKids(trees, n - 1, base) \o
       StoredCells(trees[n], base + ContainersOf(trees, n - 1))

StoredCells(tree, base) ==
  IF tree.t \notin {"array", "object"} THEN <<>>
  ELSE StoredKids(tree.kids, Len(tree.kids), base) \o
       <<[tree EXCEPT !.kids = [i \in 1..Len(tree.kids) |->
            StoredSlot(tree.kids[i], base + ContainersOf(tree.kids, i - 1))]]>>

Store(tree) == [cells |-> StoredCells(tree, 0), slot |-> StoredSlot(tree, 0)]

\* The tree a slot stands for.
RECURSIVE Tree(_, _)
Tree(slot, cells) ==
  IF ~IsRef(slot) THEN slot
  ELSE LET cell == cells[slot.n]
       IN  [cell EXCEPT !.kids = [i \in 1..Len(cell.kids) |-> Tree(cell.kids[i], cells)]]

\* The addresses of the containers a slot reaches.
RECURSIVE Reached(_, _)
Reached(slot, cells) ==
  IF ~IsRef(slot) THEN {}
  ELSE {slot.n} \cup
       UNION {Reached(cells[slot.n].kids[i], cells) : i \in 1..Len(cells[slot.n].kids)}

\* result = data: no copy, the argument itself is worked on.
ShallowCopy_Alias(cells, address) == [cells |-> cells, address |-> address]

\* const result = { ...data }: a new object with the same slots.
ShallowCopy(cells, address) ==
  [cells |-> Append(cells, cells[address]), address |-> Len(cells) + 1]

\* sanitizeExtractionData(data) on the heap: [cells, slot], the heap after the call and
\* the slot returned.
RECURSIVE sanitizeOnHeap(_, _)
RECURSIVE MapOnHeap(_, _, _)
RECURSIVE ForEachKey(_, _, _)

\* data.map(sanitizeExtractionData): the elements in order, then the new array.
MapOnHeap(elems, cells, slots) ==
  IF elems = <<>> THEN [cells |-> cells, slots |-> slots]
  ELSE LET h == sanitizeOnHeap(Head(elems), cells)
       IN  MapOnHeap(Tail(elems), h.cells, Append(slots, h.slot))

\* Object.keys(result).forEach(key => ...): result[key] = sanitizeExtractionData(result[key])
\* for the truthy values of type object, from the i-th key on.
ForEachKey(address, i, cells) ==
  IF i > Len(cells[address].kids) THEN cells
  ELSE LET slot == cells[address].kids[i]
       IN  IF IsRef(slot)
           THEN LET h == sanitizeOnHeap(slot, cells)
                IN  ForEachKey(address, i + 1,
                               [h.cells EXCEPT ![address].kids[i] = h.slot])
           ELSE ForEachKey(address, i + 1, cells)

sanitizeOnHeap(data, cells) ==
  IF ~IsRef(data) THEN [cells |-> cells, slot |-> data]
  ELSE IF IsArray(cells[data.n])
  THEN LET m == MapOnHeap(cells[data.n].kids, cells, <<>>)
       IN  [cells |-> Append(m.cells, JArr(m.slots)), slot |-> Ref(Len(m.cells) + 1)]
  ELSE LET copy == ShallowCopy(cells, data.n)
           f == SanitizeField(copy.cells[copy.address])
           fixed == [copy.cells EXCEPT ![copy.address] = f.val]
       IN  [cells |-> ForEachKey(copy.address, 1, fixed), slot |-> Ref(copy.address)]

\* cells  : the heap
\* data   : the argument of sanitizeExtractionData
\* before : the heap when sanitizeExtractionData was called
\* result : what it returned
NoHeap ==
  [pc |-> "idle", cells |-> <<>>, data |-> Undefined, before |-> <<>>, result |-> Undefined]

\* Every collaborator at rest.
NoCollaborators ==
  /\ retrying = NoRetry
  /\ manager = NoManager
  /\ scraping = NoScrape
  /\ loading = NoLoad
  /\ chunking = NoChunks
  /\ heap = NoHeap

InitExtraction ==
  /\ pc = "start"
  /\ config \in Configs
  /\ shot \in Screenshots
  /\ WithImage(config.strategy) \/ shot = "null"
  /\ responses = <<>>
  /\ errors = <<>>
  /\ parsed = Undefined
  /\ result = Undefined
  /\ warnings = <<>>
  /\ error = NoError
  /\ check = NoCheck
  /\ made = NoConfig
  /\ run = NoRun
  /\ NoCollaborators

\* extractData up to the call of extractWithRetry, when the configuration is rejected
\* or the messages cannot be prepared.
StartFails ==
  /\ pc = "start"
  /\ LET m1 == validateExtractionConfig(config)
         m2 == prepareMessages(config.strategy, shot)
     IN  /\ m1 # "" \/ m2 # ""
         /\ error' = ExtractionFailed(IF m1 # "" THEN m1 ELSE m2)
  /\ pc' = "thrown"
  /\ UNCHANGED <<check, made, run, config, shot, responses, errors, parsed, result, warnings>>
  /\ UNCHANGED collaborators

\* extractData up to the call of extractWithRetry.
Start ==
  /\ pc = "start"
  /\ validateExtractionConfig(config) = ""
  /\ prepareMessages(config.strategy, shot) = ""
  /\ pc' = "attempt"
  /\ UNCHANGED <<check, made, run, config, shot, responses, errors, parsed, result, warnings, error>>
  /\ UNCHANGED collaborators

\* A run of pRetry's function that returns: extractWithRetry resolves, extractData returns.
AttemptSucceeds(resp) ==
  /\ pc = "attempt"
  /\ LET o == RunAttempt(resp)
     IN  /\ o.ok
         /\ parsed' = o.parsed
         /\ result' = o.value
         /\ warnings' = warnings \o o.warn
  /\ responses' = Append(responses, Summary(resp))
  /\ pc' = "returned"
  /\ UNCHANGED <<check, made, run, config, shot, errors, error>>
  /\ UNCHANGED collaborators

\* A run that throws while retries remain: p-retry records the error and schedules the next run.
AttemptRetried(resp) ==
  /\ pc = "attempt"
  /\ LET o == RunAttempt(resp)
     IN  /\ ~o.ok
         /\ Retriable(o.err)
         /\ Len(errors) < Retries(config)
         /\ errors' = Append(errors, o.err)
  /\ responses' = Append(responses, Summary(resp))
  /\ pc' = "attempt"
  /\ UNCHANGED <<check, made, run, config, shot, parsed, result, warnings, error>>
  /\ UNCHANGED collaborators

\* A run that throws with no retry left: pRetry rejects with the operation's main error.
AttemptExhausted(resp) ==
  /\ pc = "attempt"
  /\ LET o == RunAttempt(resp)
     IN  /\ ~o.ok
         /\ Retriable(o.err)
         /\ Len(errors) >= Retries(config)
         /\ errors' = Append(errors, o.err)
         /\ error' = ExtractionFailed(MainError(Append(errors, o.err)).message)
  /\ responses' = Append(responses, Summary(resp))
  /\ pc' = "thrown"
  /\ UNCHANGED <<check, made, run, config, shot, parsed, result, warnings>>
  /\ UNCHANGED collaborators

\* A run that throws a TypeError: pRetry rejects with it at once.
AttemptAborted(resp) ==
  /\ pc = "attempt"
  /\ LET o == RunAttempt(resp)
     IN  /\ ~o.ok
         /\ ~Retriable(o.err)
         /\ error' = ExtractionFailed(o.err.message)
  /\ responses' = Append(responses, Summary(resp))
  /\ pc' = "thrown"
  /\ UNCHANGED <<check, made, run, config, shot, errors, parsed, result, warnings>>
  /\ UNCHANGED collaborators

(***************************************************************************)
(* The validation scripts: CigarExtractionSchema.parse on a payload,       *)
(* directly or after sanitizeExtractionData.                               *)
(***************************************************************************)
InitValidation ==
  /\ NoExtraction
  /\ check \in {[NoCheck EXCEPT !.pc = "given", !.data = d] : d \in ValidationInputs}
  /\ made = NoConfig
  /\ run = NoRun
  /\ NoCollaborators

\* CigarExtractionSchema.parse(data): the outcome of a payload handed to the Validator.
Parsed(data, sanitized, value) ==
  LET issues == ZodIssues(CigarExtractionSchema, value, <<>>)
  IN  [pc |-> IF issues = {} THEN "validated" ELSE "rejected", data |-> data,
       sanitized |-> sanitized, value |-> value, issues |-> issues]

\* CigarExtractionSchema.parse(testData)
ParseDirectly ==
  /\ check.pc = "given"
  /\ check' = Parsed(check.data, FALSE, check.data)
  /\ UNCHANGED <<made, run>>
  /\ UNCHANGED extraction
  /\ UNCHANGED collaborators

\* CigarExtractionSchema.parse(sanitizeExtractionData(dataWithUnknownType))
SanitizeThenParse ==
  /\ check.pc = "given"
  /\ LET sanitizedData == sanitizeExtractionData(check.data).val
     IN  check' = IF sanitizedData.t = "throw"
                  THEN [check EXCEPT !.pc = "thrown", !.sanitized = TRUE]
                  ELSE Parsed(check.data, TRUE, sanitizedData)
  /\ UNCHANGED <<made, run>>
  /\ UNCHANGED extraction
  /\ UNCHANGED collaborators

(***************************************************************************)
(* The configuration scripts: createExtractionConfig, then                 *)
(* validateExtractionConfig on what it returned or on a literal.           *)
(***************************************************************************)
InitConfig ==
  /\ NoExtraction
  /\ check = NoCheck
  /\ \/ made \in {[NoConfig EXCEPT !.pc = "given", !.first = f, !.second = o] :
                    f \in FirstArgs, o \in Overrides}
     \/ made \in {[NoConfig EXCEPT !.pc = "literal", !.cfg = c] : c \in LiteralConfigs}
  /\ run = NoRun
  /\ NoCollaborators

\* const config = createExtractionConfig(first, second)
CreateConfig ==
  /\ made.pc = "given"
  /\ made' = [made EXCEPT !.pc = "created",
                          !.cfg = createExtractionConfig(made.first, made.second)]
  /\ UNCHANGED <<check, run>>
  /\ UNCHANGED extraction
  /\ UNCHANGED collaborators

\* validateExtractionConfig(config)
ValidateConfig ==
  /\ made.pc \in {"created", "literal"}
  /\ LET message == checkExtractionConfig(made.cfg)
     IN  made' = [made EXCEPT !.pc = IF message = "" THEN "accepted" ELSE "rejected",
                              !.message = message]
  /\ UNCHANGED <<check, run>>
  /\ UNCHANGED extraction
  /\ UNCHANGED collaborators

(***************************************************************************)
(* runScrapingProcess                                                      *)
(***************************************************************************)
InitRun ==
  /\ NoExtraction
  /\ check = NoCheck
  /\ made = NoConfig
  /\ run = [NoRun EXCEPT !.pc = "scrape"]
  /\ NoCollaborators

ProcessedFiles == {"raw.html", "cleaned.html", "content.md", "sizes.json"}

\* scrape and processHTML succeed; saveProcessedHTMLToFiles writes the page's files.
Scrape ==
  /\ run.pc = "scrape"
  /\ run' = [run EXCEPT !.pc = "image", !.files = ProcessedFiles]
  /\ UNCHANGED <<check, made>>
  /\ UNCHANGED extraction
  /\ UNCHANGED collaborators

\* scrape throws: the catch prints the error and exits with 1.
ScrapeFails ==
  /\ run.pc = "scrape"
  /\ run' = [run EXCEPT !.pc = "exit1"]
  /\ UNCHANGED <<check, made>>
  /\ UNCHANGED extraction
  /\ UNCHANGED collaborators

\* A request of sendImageToOpenAI or sendToOpenAI that rejects while retries remain.
RequestRetried(resp) ==
  /\ run.pc \in {"image", "text"}
  /\ resp.kind = "error"
  /\ run.attempts < RunRetries
  /\ run' = [run EXCEPT !.attempts = @ + 1]
  /\ UNCHANGED <<check, made>>
  /\ UNCHANGED extraction
  /\ UNCHANGED collaborators

\* A request that rejects with no retry left: pRetry rejects, the catch exits with 1.
RequestExhausted(resp) ==
  /\ run.pc \in {"image", "text"}
  /\ resp.kind = "error"
  /\ run.attempts >= RunRetries
  /\ run' = [run EXCEPT !.pc = "exit1"]
  /\ UNCHANGED <<check, made>>
  /\ UNCHANGED extraction
  /\ UNCHANGED collaborators

\* A request that resolves, and saveExtractedData on its content: the file is written
\* when JSON.parse takes the content, otherwise the catch exits with 1.
RequestSaved(resp) ==
  /\ run.pc \in {"image", "text"}
  /\ resp.kind = "content"
  /\ LET content == ContentOrEmpty(resp)
         file == IF run.pc = "image" THEN "extracted-image-gpt-4o-2024-08-06.json"
                 ELSE "extracted-text-gpt-4o-2024-08-06.json"
     IN  IF saveExtractedData(content) # ""
         THEN run' = [run EXCEPT !.pc = "exit1", !.content = content]
         ELSE run' = [run EXCEPT !.pc = IF run.pc = "image" THEN "text" ELSE "done",
                                 !.attempts = 0,
                                 !.content = content,
                                 !.files = @ \cup {file},
                                 !.extracted = Append(@, content)]
  /\ UNCHANGED <<check, made>>
  /\ UNCHANGED extraction
  /\ UNCHANGED collaborators

(***************************************************************************)
(* retry: pc is "call" while a call of fn is due, then "returned" or       *)
(* "thrown"; calls counts the calls of fn, failures lists the statuses     *)
(* thrown, waits the delays slept.                                         *)
(***************************************************************************)
InitRetry ==
  /\ NoExtraction
  /\ NoScripts
  /\ \E r \in 0..maxRetries, d \in {0, 1, retryDelay} :
       retrying = [NoRetry EXCEPT !.pc = "call", !.retries = r, !.delay = d,
                                  !.retries0 = r, !.delay0 = d]
  /\ manager = NoManager
  /\ scraping = NoScrape
  /\ loading = NoLoad
  /\ chunking = NoChunks
  /\ heap = NoHeap

OnlyRetrying ==
  /\ UNCHANGED extraction
  /\ UNCHANGED scripts
  /\ UNCHANGED <<manager, scraping, loading, chunking, heap>>

\* return await fn()
FnReturns ==
  /\ retrying.pc = "call"
  /\ retrying' = [retrying EXCEPT !.pc = "returned", !.calls = @ + 1]
  /\ OnlyRetrying

\* fn throws a 429 while retries remain: wait delay, then retry(fn, retries - 1, delay * 2).
FnRetried(status) ==
  /\ retrying.pc = "call"
  /\ status # 0
  /\ RetryAgain(retrying.retries, status)
  /\ retrying' = [retrying EXCEPT !.calls = @ + 1,
                                  !.failures = Append(@, status),
                                  !.waits = Append(@, retrying.delay),
                                  !.retries = @ - 1,
                                  !.delay = Backoff(@)]
  /\ OnlyRetrying

\* fn throws anything else, or a 429 with no retries left: throw error.
FnRethrown(status) ==
  /\ retrying.pc = "call"
  /\ status # 0
  /\ ~RetryAgain(retrying.retries, status)
  /\ retrying' = [retrying EXCEPT !.pc = "thrown", !.calls = @ + 1,
                                  !.failures = Append(@, status)]
  /\ OnlyRetrying

(***************************************************************************)
(* FileManager.writeFile and saveScreenshot: the calls may overlap, each   *)
(* proceeds at its awaits.                                                 *)
(***************************************************************************)
InitManager ==
  /\ NoExtraction
  /\ NoScripts
  /\ retrying = NoRetry
  /\ manager = [NoManager EXCEPT !.pc = "constructed"]
  /\ scraping = NoScrape
  /\ loading = NoLoad
  /\ chunking = NoChunks
  /\ heap = NoHeap

OnlyManager ==
  /\ UNCHANGED extraction
  /\ UNCHANGED scripts
  /\ UNCHANGED <<retrying, scraping, loading, chunking, heap>>

\* writeFile(params) or saveScreenshot(path) is called: it runs up to its first await,
\* the write of the file.
CallBegins(contentType) ==
  /\ manager.pc = "constructed"
  /\ Len(manager.calls) < MaxCalls
  /\ manager' = [manager EXCEPT
       !.calls = Append(@, [pc |-> "writing", file |-> contentType, snapshot |-> <<>>])]
  /\ OnlyManager

\* The write of the file completes: the entry is pushed, saveMetadata serialises the
\* metadata and starts writing metadata.json.
FileWritten(c) ==
  /\ c \in 1..Len(manager.calls)
  /\ manager.calls[c].pc = "writing"
  /\ LET entry == Entry(manager.calls[c].file, c)
         createdFiles == Push(manager.createdFiles, entry)
     IN  manager' = [manager EXCEPT !.createdFiles = createdFiles,
                                    !.written = Append(@, entry),
                                    !.calls[c].pc = "saving",
                                    !.calls[c].snapshot = createdFiles]
  /\ OnlyManager

\* ensurePathExists or the write of the file throws: the call throws.
FileWriteFails(c) ==
  /\ c \in 1..Len(manager.calls)
  /\ manager.calls[c].pc = "writing"
  /\ manager' = [manager EXCEPT !.calls[c].pc = "thrown"]
  /\ OnlyManager

\* The write of metadata.json completes: the call returns the path.
MetadataWritten(c) ==
  /\ c \in 1..Len(manager.calls)
  /\ manager.calls[c].pc = "saving"
  /\ manager' = [manager EXCEPT !.saved = TRUE,
                                !.json = manager.calls[c].snapshot,
                                !.calls[c].pc = "returned"]
  /\ OnlyManager

\* The write of metadata.json throws: the call throws.
MetadataFails(c) ==
  /\ c \in 1..Len(manager.calls)
  /\ manager.calls[c].pc = "saving"
  /\ manager' = [manager EXCEPT !.calls[c].pc = "thrown"]
  /\ OnlyManager

(***************************************************************************)
(* scrape                                                                  *)
(***************************************************************************)
InitScrape ==
  /\ NoExtraction
  /\ NoScripts
  /\ retrying = NoRetry
  /\ manager = NoManager
  /\ \E v \in BOOLEAN, w \in BOOLEAN :
       scraping = [NoScrape EXCEPT !.pc = "connect", !.viewport = v, !.waitAfterLoad = w]
  /\ loading = NoLoad
  /\ chunking = NoChunks
  /\ heap = NoHeap

OnlyScraping ==
  /\ UNCHANGED extraction
  /\ UNCHANGED scripts
  /\ UNCHANGED <<retrying, manager, loading, chunking, heap>>

\* if (config.viewport), if (config.waitOptions?.waitAfterLoad): the step is left out.
Skipped(step) ==
  \/ ScrapeSteps[step] = "setViewport" /\ ~scraping.viewport
  \/ ScrapeSteps[step] = "waitAfterLoad" /\ ~scraping.waitAfterLoad

\* The step due after step.
RECURSIVE StepAfter(_)
StepAfter(step) ==
  IF step + 1 > Len(ScrapeSteps) THEN step + 1
  ELSE IF Skipped(step + 1) THEN StepAfter(step + 1)
  ELSE step + 1

\* The catch block: throw new Error(`Scraping failed: ${errorDetails.message}`)
ScrapingFailed(step) == [message |-> "Scraping failed", cause |-> step]

\* puppeteer.connect resolves.
Connected ==
  /\ scraping.pc = "connect"
  /\ scraping' = [scraping EXCEPT !.pc = "page", !.browser = TRUE, !.step = StepAfter(0)]
  /\ OnlyScraping

\* puppeteer.connect rejects: browser stays null, the catch block throws.
ConnectFails ==
  /\ scraping.pc = "connect"
  /\ scraping' = [scraping EXCEPT !.pc = "finally", !.failed = "connect",
                                  !.pending = "thrown",
                                  !.error = ScrapingFailed("connect")]
  /\ OnlyScraping

\* A step on the page resolves; after the last one scrape is to return the result.
StepDone ==
  /\ scraping.pc = "page"
  /\ LET next == StepAfter(scraping.step)
     IN  scraping' = IF next > Len(ScrapeSteps)
                     THEN [scraping EXCEPT !.pc = "finally", !.step = next,
                                           !.pending = "returned"]
                     ELSE [scraping EXCEPT !.step = next]
  /\ OnlyScraping

\* A step on the page rejects: the catch block throws.
StepFails ==
  /\ scraping.pc = "page"
  /\ scraping' = [scraping EXCEPT !.pc = "finally",
                                  !.failed = ScrapeSteps[scraping.step],
                                  !.pending = "thrown",
                                  !.error = ScrapingFailed(ScrapeSteps[scraping.step])]
  /\ OnlyScraping

\* finally without a browser: nothing to disconnect.
FinallyWithoutBrowser ==
  /\ scraping.pc = "finally"
  /\ ~scraping.browser
  /\ scraping' = [scraping EXCEPT !.pc = AfterFinally(scraping.pending, FALSE)]
  /\ OnlyScraping

\* finally: browser.disconnect resolves.
Disconnected ==
  /\ scraping.pc = "finally"
  /\ scraping.browser
  /\ scraping' = [scraping EXCEPT !.pc = AfterFinally(scraping.pending, FALSE),
                                  !.disconnects = @ + 1]
  /\ OnlyScraping

\* finally: browser.disconnect rejects, the inner catch logs a warning.
DisconnectFails ==
  /\ scraping.pc = "finally"
  /\ scraping.browser
  /\ scraping' = [scraping EXCEPT !.pc = AfterFinally(scraping.pending, TRUE),
                                  !.disconnects = @ + 1,
                                  !.warned = TRUE,
                                  !.error = IF AfterFinally(scraping.pending, TRUE) = scraping.pending
                                            THEN @
                                            ELSE [message |-> "disconnect", cause |-> ""]]
  /\ OnlyScraping

(***************************************************************************)
(* loadConfig and resetConfigCache                                         *)
(***************************************************************************)
InitLoading ==
  /\ NoExtraction
  /\ NoScripts
  /\ retrying = NoRetry
  /\ manager = NoManager
  /\ scraping = NoScrape
  /\ \E d \in Disks : loading = [NoLoad EXCEPT !.pc = "ready", !.disk = d]
  /\ chunking = NoChunks
  /\ heap = NoHeap

OnlyLoading ==
  /\ UNCHANGED extraction
  /\ UNCHANGED scripts
  /\ UNCHANGED <<retrying, manager, scraping, chunking, heap>>

LoadCall(op, configPath, read, threw, value, cached) ==
  [op |-> op, configPath |-> configPath, read |-> read, threw |-> threw, value |-> value,
   cached |-> cached]

\* loadConfig(configPath) with a cached configuration: it is returned.
LoadConfigCached(configPath) ==
  /\ loading.pc = "ready"
  /\ Len(loading.calls) < MaxLoads
  /\ Cached(loading.cachedConfig)
  /\ loading' = [loading EXCEPT
       !.calls = Append(@, LoadCall("loadConfig", configPath, "", FALSE,
                                    loading.cachedConfig, loading.cachedConfig))]
  /\ OnlyLoading

\* loadConfig(configPath) without one: the file is read, parsed and validated, then
\* cached and returned, or the error is thrown.
LoadConfigReads(configPath) ==
  /\ loading.pc = "ready"
  /\ Len(loading.calls) < MaxLoads
  /\ ~Cached(loading.cachedConfig)
  /\ LET path == finalConfigPath(configPath)
         loaded == LoadFile(loading.disk[path])
         cached == CacheAfterLoad(loaded.config, loaded.message)
     IN  loading' = [loading EXCEPT
           !.cachedConfig = cached,
           !.calls = Append(@, LoadCall("loadConfig", configPath, path, loaded.message # "",
                                        IF loaded.message = "" THEN loaded.config
                                        ELSE Undefined,
                                        cached))]
  /\ OnlyLoading

\* resetConfigCache()
ResetConfigCache ==
  /\ loading.pc = "ready"
  /\ Len(loading.calls) < MaxLoads
  /\ loading' = [loading EXCEPT
       !.cachedConfig = JNull,
       !.calls = Append(@, LoadCall("resetConfigCache", "", "", FALSE, Undefined, JNull))]
  /\ OnlyLoading

(***************************************************************************)
(* extractStructuredDataFromChunks: one action per iteration of the loop.  *)
(***************************************************************************)
InitChunks ==
  /\ NoExtraction
  /\ NoScripts
  /\ retrying = NoRetry
  /\ manager = NoManager
  /\ scraping = NoScrape
  /\ loading = NoLoad
  /\ \E n \in 0..MaxChunks : chunking = [NoChunks EXCEPT !.pc = "loop", !.chunks = n]
  /\ heap = NoHeap

OnlyChunking ==
  /\ UNCHANGED extraction
  /\ UNCHANGED scripts
  /\ UNCHANGED <<retrying, manager, scraping, loading, heap>>

\* const extractedData = JSON.parse(stripCodeBlocks(rawContent))
ExtractedData(content) == ParseText(stripCodeBlocks(rawContent(content)))

ChunkEntry(chunk, request, content, ok, value) ==
  [chunk |-> chunk, request |-> request, content |-> content, ok |-> ok, value |-> value]

\* The try block runs through: the parsed content is pushed.
ChunkExtracted(request, content) ==
  /\ chunking.pc = "loop"
  /\ chunking.i < chunking.chunks
  /\ RetryResult(request, maxRetries) = 0
  /\ ExtractedData(content).t # "throw"
  /\ chunking' = [chunking EXCEPT
       !.results = Append(@, ExtractedData(content)),
       !.log = Append(@, ChunkEntry(chunking.i + 1, request, content, TRUE,
                                    ExtractedData(content))),
       !.i = NextChunk(@, chunking.chunks, FALSE)]
  /\ OnlyChunking

\* retry rethrows the error of the request: the catch block logs it.
ChunkRequestFails(request) ==
  /\ chunking.pc = "loop"
  /\ chunking.i < chunking.chunks
  /\ RetryResult(request, maxRetries) # 0
  /\ chunking' = [chunking EXCEPT
       !.log = Append(@, ChunkEntry(chunking.i + 1, request, MissingContent, FALSE,
                                    Undefined)),
       !.i = NextChunk(@, chunking.chunks, TRUE)]
  /\ OnlyChunking

\* JSON.parse throws: the catch block logs it.
ChunkParseFails(request, content) ==
  /\ chunking.pc = "loop"
  /\ chunking.i < chunking.chunks
  /\ RetryResult(request, maxRetries) = 0
  /\ ExtractedData(content).t = "throw"
  /\ chunking' = [chunking EXCEPT
       !.log = Append(@, ChunkEntry(chunking.i + 1, request, content, FALSE, Undefined)),
       !.i = NextChunk(@, chunking.chunks, TRUE)]
  /\ OnlyChunking

\* i < htmlChunks.length fails: return results.
ChunksReturned ==
  /\ chunking.pc = "loop"
  /\ chunking.i >= chunking.chunks
  /\ chunking' = [chunking EXCEPT !.pc = "returned"]
  /\ OnlyChunking

(***************************************************************************)
(* sanitizeExtractionData called on a tree that JSON.parse built.          *)
(***************************************************************************)
InitHeap ==
  /\ NoExtraction
  /\ NoScripts
  /\ retrying = NoRetry
  /\ manager = NoManager
  /\ scraping = NoScrape
  /\ loading = NoLoad
  /\ chunking = NoChunks
  /\ \E tree \in Payloads :
       LET built == Store(tree)
       IN  heap = [NoHeap EXCEPT !.pc = "parsed", !.cells = built.cells, !.data = built.slot]

OnlyHeap ==
  /\ UNCHANGED extraction
  /\ UNCHANGED scripts
  /\ UNCHANGED <<retrying, manager, scraping, loading, chunking>>

SanitizeOnHeap ==
  /\ heap.pc = "parsed"
  /\ LET done == sanitizeOnHeap(heap.data, heap.cells)
     IN  heap' = [heap EXCEPT !.pc = "sanitized", !.before = heap.cells,
                              !.cells = done.cells, !.result = done.slot]
  /\ OnlyHeap

Init ==
  \/ InitExtraction
  \/ InitValidation
  \/ InitConfig
  \/ InitRun
  \/ InitRetry
  \/ InitManager
  \/ InitScrape
  \/ InitLoading
  \/ InitChunks
  \/ InitHeap

Next ==
  \/ StartFails
  \/ Start
  \/ \E resp \in Responses : AttemptSucceeds(resp)
  \/ \E resp \in Responses : AttemptRetried(resp)
  \/ \E resp \in Responses : AttemptExhausted(resp)
  \/ \E resp \in Responses : AttemptAborted(resp)
  \/ ParseDirectly
  \/ SanitizeThenParse
  \/ CreateConfig
  \/ ValidateConfig
  \/ Scrape
  \/ ScrapeFails
  \/ \E resp \in RunResponses : RequestRetried(resp)
  \/ \E resp \in RunResponses : RequestExhausted(resp)
  \/ \E resp \in RunResponses : RequestSaved(resp)
  \/ FnReturns
  \/ \E status \in FnOutcomes : FnRetried(status)
  \/ \E status \in FnOutcomes : FnRethrown(status)
  \/ \E contentType \in ContentTypes : CallBegins(contentType)
  \/ \E c \in 1..MaxCalls : FileWritten(c)
  \/ \E c \in 1..MaxCalls : FileWriteFails(c)
  \/ \E c \in 1..MaxCalls : MetadataWritten(c)
  \/ \E c \in 1..MaxCalls : MetadataFails(c)
  \/ Connected
  \/ ConnectFails
  \/ StepDone
  \/ StepFails
  \/ FinallyWithoutBrowser
  \/ Disconnected
  \/ DisconnectFails
  \/ \E configPath \in ConfigPathArgs : LoadConfigCached(configPath)
  \/ \E configPath \in ConfigPathArgs : LoadConfigReads(configPath)
  \/ ResetConfigCache
  \/ \E request \in Requests, content \in Contents : ChunkExtracted(request, content)
  \/ \E request \in Requests : ChunkRequestFails(request)
  \/ \E request \in Requests, content \in Contents : ChunkParseFails(request, content)
  \/ ChunksReturned
  \/ SanitizeOnHeap

Spec == Init /\ [][Next]_vars

TypeOK ==
  /\ pc \in {"idle", "start", "attempt", "returned", "thrown"}
  /\ Len(responses) \in 0..(DefaultRetries + MaxRetries + 1)

(***************************************************************************)
(* Properties of the Normalizer (sanitizeExtractionData), read off the     *)
(* payload parsed and the value returned by the attempt that succeeded.    *)
(***************************************************************************)

LowerOf(x) == [x EXCEPT !.caps = {}]

IsAccepted(x) == x.t = "string" /\ x.caps = {} /\ x.s \in package_type_enum

RECURSIVE TypeFieldsAccepted(_)
TypeFieldsAccepted(v) ==
  CASE v.t = "array" -> \A i \in 1..Len(v.kids) : TypeFieldsAccepted(v.kids[i])
    [] v.t = "object" ->
         \A i \in 1..Len(v.keys) :
           /\ v.keys[i] \in TypeKeys => (v.kids[i].t = "null" \/ IsAccepted(v.kids[i]))
           /\ TypeFieldsAccepted(v.kids[i])
    [] OTHER -> TRUE

RECURSIVE HasField(_, _)
HasField(v, key) ==
  CASE v.t = "array" -> \E i \in 1..Len(v.kids) : HasField(v.kids[i], key)
    [] v.t = "object" ->
         \E i \in 1..Len(v.keys) : v.keys[i] = key \/ HasField(v.kids[i], key)
    [] OTHER -> FALSE

RECURSIVE Depth(_)
Depth(v) ==
  IF v.t \in {"array", "object"}
  THEN 1 + (IF v.kids = <<>> THEN 0
            ELSE CHOOSE d \in {Depth(v.kids[i]) : i \in 1..Len(v.kids)} :
                   \A i \in 1..Len(v.kids) : Depth(v.kids[i]) <= d)
  ELSE 0

\* C1: in the value the Normalizer returns, every field named package_type or
\* quantity_type, at any depth, holds null or one of the 12 accepted values.
C1_TypeFieldsAccepted ==
  pc = "returned" => TypeFieldsAccepted(result)

RECURSIVE SameExceptTypeFields(_, _)
SameExceptTypeFields(a, b) ==
  /\ a.t = b.t
  /\ CASE a.t = "array" ->
            /\ Len(a.kids) = Len(b.kids)
            /\ \A i \in 1..Len(a.kids) : SameExceptTypeFields(a.kids[i], b.kids[i])
       [] a.t = "object" ->
            /\ a.keys = b.keys
            /\ Len(a.kids) = Len(b.kids)
            /\ \A i \in 1..Len(a.kids) :
                 \/ a.keys[i] \in TypeKeys /\ a.kids[i].t \notin {"array", "object"}
                 \/ SameExceptTypeFields(a.kids[i], b.kids[i])
       [] OTHER -> a = b

\* C2: the Normalizer's output has the keys of its input at every level, in the same
\* order, the same array lengths and element order, and the same value for every field
\* other than package_type / quantity_type.
C2_OnlyTypeFieldsChange ==
  pc = "returned" => SameExceptTypeFields(parsed, result)

\* a rewritten value next to other fields, below an unknown parent field
C2_Witness ==
  /\ pc = "returned"
  /\ parsed # result
  /\ HasField(parsed, "unknown_field")
  /\ HasField(parsed, "quantity")
  /\ Depth(parsed) >= 3

\* C3: the Normalizer is idempotent: a second pass over its output returns the output.
C3_Idempotent ==
  pc = "returned" => sanitizeExtractionData(result).val = result

\* the first pass replaced an unknown value by the fallback
C3_Witness ==
  /\ pc = "returned"
  /\ parsed # result
  /\ warnings # <<>>

RECURSIVE RecognisedLowerCased(_, _)
RecognisedLowerCased(a, b) ==
  /\ a.t = b.t
  /\ Len(a.kids) = Len(b.kids)
  /\ CASE a.t = "array" ->
            \A i \in 1..Len(a.kids) : RecognisedLowerCased(a.kids[i], b.kids[i])
       [] a.t = "object" ->
            \A i \in 1..Len(a.kids) :
              IF a.keys[i] \in TypeKeys /\ a.kids[i].t = "string" /\ IsAccepted(LowerOf(a.kids[i]))
              THEN b.kids[i] = LowerOf(a.kids[i])
              ELSE RecognisedLowerCased(a.kids[i], b.kids[i])
       [] OTHER -> TRUE

\* C5: a package_type / quantity_type string whose lower-cased form is accepted comes
\* out as exactly that lower-cased form.
C5_RecognisedLowerCased ==
  pc = "returned" => RecognisedLowerCased(parsed, result)

\* C6: the Normalizer never raises: no extraction fails with an exception thrown by
\* sanitizeExtractionData, whatever JSON value was parsed.
C6_NormalizerNeverRaises ==
  /\ error.cause # "sanitizeExtractionData"
  /\ pc = "returned" => result.t \notin {"throw", "undefined"}

RECURSIVE NonStringTypeField(_)
NonStringTypeField(v) ==
  CASE v.t = "array" -> \E i \in 1..Len(v.kids) : NonStringTypeField(v.kids[i])
    [] v.t = "object" ->
         \E i \in 1..Len(v.keys) :
           \/ v.keys[i] = SanitizedKey /\ v.kids[i].t \in {"number", "boolean"} /\ Truthy(v.kids[i])
           \/ NonStringTypeField(v.kids[i])
    [] OTHER -> FALSE

\* a tree whose quantity_type is a number or true has been through the Normalizer
C6_Witness ==
  /\ pc = "returned"
  /\ NonStringTypeField(parsed)

(***************************************************************************)
(* The values the Normalizer rewrote, in the order of its traversal: the   *)
(* original strings at the package_type / quantity_type positions whose    *)
(* value differs in the output; with unrecognisedOnly, only those whose    *)
(* lower-cased form is not an accepted value.                              *)
(***************************************************************************)
RECURSIVE Rewritten(_, _, _)
RECURSIVE RewrittenBelow(_, _, _, _)

RewrittenHere(a, b, unrecognisedOnly, i) ==
  IF /\ a.keys[i] \in TypeKeys
     /\ a.kids[i].t = "string"
     /\ a.kids[i] # b.kids[i]
     /\ ~unrecognisedOnly \/ ~IsAccepted(LowerOf(a.kids[i]))
  THEN <<a.kids[i]>>
  ELSE <<>>

RECURSIVE RewrittenOwn(_, _, _, _)
RewrittenOwn(a, b, unrecognisedOnly, i) ==
  IF i > Len(a.kids) THEN <<>>
  ELSE RewrittenHere(a, b, unrecognisedOnly, i) \o RewrittenOwn(a, b, unrecognisedOnly, i + 1)

RewrittenBelow(a, b, unrecognisedOnly, i) ==
  IF i > Len(a.kids) THEN <<>>
  ELSE Rewritten(a.kids[i], b.kids[i], unrecognisedOnly) \o
       RewrittenBelow(a, b, unrecognisedOnly, i + 1)

Rewritten(a, b, unrecognisedOnly) ==
  IF a.t # b.t \/ Len(a.kids) # Len(b.kids) THEN <<>>
  ELSE IF a.t = "array" THEN RewrittenBelow(a, b, unrecognisedOnly, 1)
  ELSE IF a.t = "object"
  THEN RewrittenOwn(a, b, unrecognisedOnly, 1) \o RewrittenBelow(a, b, unrecognisedOnly, 1)
  ELSE <<>>

\* C10 as stated: every rewrite of a package_type / quantity_type value writes one
\* diagnostic line naming the original value, and nothing else writes one.
C10_EveryRewriteLogged ==
  pc = "returned" => warnings = Rewritten(parsed, result, FALSE)

\* C10 as amended: one diagnostic line, naming the original value, for every value replaced
\* by the fallback "other"; lower-casing an accepted value writes none, nor does a pass
\* that rewrites nothing.
C10_UnrecognisedRewriteLogged ==
  pc = "returned" => warnings = Rewritten(parsed, result, TRUE)

\* a pass that replaced an unknown value written with a capital and lower-cased another
C10_Witness ==
  /\ pc = "returned"
  /\ Len(warnings) >= 1
  /\ \E i \in 1..Len(warnings) : warnings[i].caps # {}
  /\ Len(Rewritten(parsed, result, FALSE)) > Len(warnings)

(***************************************************************************)
(* Properties of the extraction core (extractData, extractWithRetry).      *)
(***************************************************************************)

\* The retries asked of p-retry, read off the configuration.
ConfiguredRetries ==
  IF config.retries = NoRetryOptions THEN DefaultRetries ELSE config.retries

UnknownPackageTypes == {v \in PackageTypes : v.t = "string" /\ ~IsAccepted(LowerOf(v))}

\* C4: a record whose only defect is a package_type outside the accepted enum comes out
\* of the Normalizer with that value rewritten to "other", and the Validator accepts it.
C4_UnknownPackageTypeRepaired ==
  \A pt \in {"blend_page", "unknown"}, v \in UnknownPackageTypes :
    (pc = "returned" /\ parsed = Extraction(pt, <<Product(<<Vitola(<<Offer(v)>>)>>)>>))
    => /\ result = Extraction(pt, <<Product(<<Vitola(<<Offer(JStr("other", {}))>>)>>)>>)
       /\ ZodAccepts(CigarExtractionSchema, result)

\* C7: every tree the extraction core returns has been checked by the Validator: a
\* payload that does not conform after normalisation is never returned.
C7_ReturnedTreeValidated ==
  pc = "returned" => ZodAccepts(CigarExtractionSchema, result)

\* C8 as stated: after a response that is not parseable as JSON the core issues no
\* further inference request for the page.
C8_NoRequestAfterParseFailure ==
  \A i \in 1..Len(errors) : errors[i] = ParseError => Len(responses) = i

\* C8 as amended: a response that is not parseable as JSON fails that attempt only; while
\* retries remain (retryOptions.retries, 3 by default) the core issues another inference
\* request for the page, and the failure reaches the caller, as an error of extractData,
\* only when no retry is left.
C8_ParseFailureRetried ==
  \A i \in 1..Len(errors) :
    errors[i] = ParseError =>
      /\ i <= ConfiguredRetries + 1
      /\ i <= ConfiguredRetries => \/ pc = "attempt" /\ Len(responses) = i
                                   \/ Len(responses) > i
      /\ i = ConfiguredRetries + 1 =>
           /\ pc = "thrown"
           /\ Len(responses) = i
           /\ error.message = "Data extraction failed"

\* a request was issued after a parse failure, and the page failed when none was left
C8_Witness ==
  /\ pc = "thrown"
  /\ Len(errors) >= 2
  /\ errors[1] = ParseError
  /\ errors[Len(errors)] = ParseError
  /\ Len(responses) = ConfiguredRetries + 1

\* C9: when no request delivered any content, extractData returns no tree: nothing is
\* returned while attempts remain, and once they are used up it has thrown.
C9_NothingDeliveredNothingReturned ==
  (responses # <<>> /\ \A i \in 1..Len(responses) : responses[i] = "empty")
  => /\ pc # "returned"
     /\ result = Undefined
     /\ parsed = Undefined
     /\ Len(responses) <= ConfiguredRetries + 1
     /\ Len(responses) = ConfiguredRetries + 1 =>
          /\ pc = "thrown"
          /\ error = ExtractionFailed(NoContentError.message)

\* every attempt came back without content and extractData has thrown
C9_Witness ==
  /\ pc = "thrown"
  /\ Len(responses) >= 2
  /\ \A i \in 1..Len(responses) : responses[i] = "empty"

(***************************************************************************)
(* Properties of the Validator (CigarExtractionSchema), read off the       *)
(* validation scripts.                                                     *)
(***************************************************************************)
Checked == check.pc \in {"validated", "rejected"}

\* The value at a path of property names and array indexes, undefined off the tree.
RECURSIVE At(_, _)
At(v, path) ==
  IF path = <<>> THEN v
  ELSE IF v.t = "object" THEN At(Get(v, path[1]), Tail(path))
  ELSE IF v.t = "array" /\ \E i \in 1..Len(v.kids) : ToString(i - 1) = path[1]
  THEN At(v.kids[PositionOf(v, path[1])], Tail(path))
  ELSE Undefined

\* C11: the Validator accepts a payload exactly when the payload conforms to the schema
\* sent for inference.
C11_SameContract ==
  Checked => (check.pc = "validated" <=> Conforms(CIGAR_EXTRACTION_SCHEMA, check.value))

QuantityTypePath == <<"products", "0", "size_options", "0", "price", "quantity_type">>

\* C12: the sanitizer's accepted values, the non-null package_type values of the schema
\* sent for inference and its quantity_type values are the same 12 values, and the
\* sanitizer leaves a packaging value as it is exactly when the schema sent for
\* inference accepts it.
C12_SameAcceptedValues ==
  /\ validTypes = package_type_enum
  /\ validTypes = quantity_type_enum
  /\ validTypes = {"single", "pack", "box", "bundle", "sampler", "tin", "tube", "cabinet",
                   "case", "sleeve", "other", "unspecified"}
  /\ (Checked /\ check.sanitized /\ At(check.data, QuantityTypePath).t = "string") =>
       (At(check.value, QuantityTypePath) = At(check.data, QuantityTypePath)
          <=> Conforms(PackageTypeJsonSchema, At(check.data, QuantityTypePath)))

C12_Witness ==
  /\ Checked
  /\ check.sanitized
  /\ At(check.data, QuantityTypePath) = JStr("humidor", {})
  /\ At(check.value, QuantityTypePath) = Other

\* C13: the Validator takes the page_type of a payload exactly when it is one of
\* blend_page, brand_page, search_page, single_vitola_page, collection_page, unknown, and
\* it accepts page_type "unknown" with an empty products array.
C13_PageTypeAccepted ==
  Checked =>
    /\ <<"page_type">> \notin check.issues
         <=> (Get(check.value, "page_type").t = "string"
              /\ Get(check.value, "page_type").caps = {}
              /\ Get(check.value, "page_type").s \in page_type_enum)
    /\ check.value = Extraction("unknown", <<>>) => check.pc = "validated"

StrengthPath == <<"products", "0", "specifications", "strength">>

NamesIn(text) == SelectSeq(text, LAMBDA x : x \in {"robusto", "toro", "single", "box"})

\* C15: a product with the vitolas "Robusto" (one offer) and "Toro" (a single and a box
\* of 20) is accepted by the Validator, and the serialised payload lists the vitolas and
\* each vitola's offers in the order given.
C15_VitolasAcceptedInOrder ==
  (Checked /\ \E pt \in page_type_enum : check.data = Extraction(pt, <<RobustoAndToro>>)) =>
    /\ check.pc = "validated"
    /\ NamesIn(Stringify(check.value)) = <<"robusto", "single", "toro", "single", "box">>

\* C16: a payload of the validation script, of the schema sent for inference or of
\* CigarExtractionSchema is accepted without sanitisation for each of the 12 packaging
\* values.
C16_EveryPackagingValueAccepted ==
  \A x \in package_type_enum :
    (/\ Checked
     /\ ~check.sanitized
     /\ check.data \in {SizeOptionsExtraction(JStr(x, {})),
                        Extraction("blend_page", <<Product(<<Vitola(<<Offer(JStr(x, {}))>>)>>)>>),
                        Extraction("search_results", <<FullFlatProduct(JStr(x, {}))>>)})
      => check.pc = "validated"

(***************************************************************************)
(* Properties of runScrapingProcess.                                       *)
(***************************************************************************)

\* C17: every extracted-data record written holds a payload that parsed and that the
\* Validator accepts, and a request whose content does not parse leaves no record of it.
C17_OnlyValidatedRecordsPersisted ==
  /\ \A i \in 1..Len(run.extracted) :
       /\ run.extracted[i].wellFormed
       /\ ZodAccepts(CigarExtractionSchema, run.extracted[i].tree)
  /\ (run.pc = "exit1" /\ run.extracted = <<>>) =>
       "extracted-image-gpt-4o-2024-08-06.json" \notin run.files

(***************************************************************************)
(* Properties of the extraction configurations.                            *)
(***************************************************************************)
NamesPreset(arg) == arg.kind = "string" /\ arg.s \in Presets

\* C18: createExtractionConfig(preset, overrides) is the preset's configuration (the
\* defaults without a preset) with the fields of overrides replacing the preset's, and
\* its systemPrompt is not empty.
C18_PresetWithOverrides ==
  (made.pc = "created" /\ (NamesPreset(made.first) \/ made.first = NoArg)) =>
    /\ made.cfg = Spread(IF made.first = NoArg THEN DEFAULT_EXTRACTION_CONFIG
                         ELSE getRecommendedConfig(made.first.s), made.second)
    /\ made.cfg.systemPrompt # ""

\* C19: validateExtractionConfig accepts the configuration made for each preset, throws
\* for every model that is not an entry of MODEL_CONFIGS, and throws for 'gpt-4o'.
C19_PresetsPassRemovedModelFails ==
  made.pc \in {"accepted", "rejected"} =>
    /\ (NamesPreset(made.first) /\ made.second = NoArg) => made.pc = "accepted"
    /\ made.cfg.model \notin MODEL_CONFIGS => made.pc = "rejected"
    /\ made.cfg.model = "gpt-4o" => made.pc = "rejected"

(***************************************************************************)
(* Properties of extractWithRetry.                                         *)
(***************************************************************************)
Attempted == pc = "thrown" /\ responses # <<>>

\* How many of the recorded errors carry the message.
Occurrences(message) == Cardinality({i \in 1..Len(errors) : errors[i].message = message})

\* C20 as stated: at most retries + 1 requests, the first success ends the extraction,
\* and an error reaches the caller only after retries + 1 failed attempts, and it is
\* the last attempt's.
C20_LastErrorAfterAllAttempts ==
  /\ Len(responses) <= ConfiguredRetries + 1
  /\ pc = "returned" => Len(errors) = Len(responses) - 1
  /\ Attempted =>
       /\ Len(errors) = ConfiguredRetries + 1
       /\ error.cause = errors[Len(errors)].message

\* C20: at most retries + 1 requests, the first success ends the extraction, and an
\* error reaches the caller either at once, from an attempt that throws a TypeError, or
\* after retries + 1 failed attempts, and it is then an error whose message occurred
\* most often among the failed attempts.
C20_MainErrorAfterAllAttempts ==
  /\ Len(responses) <= ConfiguredRetries + 1
  /\ pc = "returned" => Len(errors) = Len(responses) - 1
  /\ Attempted =>
       \/ /\ responses[Len(responses)] = "nochoices"
          /\ error.cause = NoChoicesError.message
       \/ /\ Len(responses) = ConfiguredRetries + 1
          /\ Len(errors) = ConfiguredRetries + 1
          /\ \E i \in 1..Len(errors) : errors[i].message = error.cause
          /\ \A i \in 1..Len(errors) :
               Occurrences(errors[i].message) <= Occurrences(error.cause)

C20_Witness ==
  /\ Attempted
  /\ Len(errors) = ConfiguredRetries + 1
  /\ Len(errors) >= 3
  /\ error.cause # errors[Len(errors)].message

(***************************************************************************)
(* Properties of retry.                                                    *)
(***************************************************************************)
RECURSIVE Pow2(_)
Pow2(k) == IF k = 0 THEN 1 ELSE 2 * Pow2(k - 1)

\* The failures of fn that were followed by another call of fn.
RetriedFailures ==
  IF retrying.pc = "thrown" THEN Len(retrying.failures) - 1 ELSE Len(retrying.failures)

\* C21: fn is called again only after a failure with status 429 and only while retries
\* remain: fn runs at most retries + 1 times, the wait before the k-th retry is
\* delay * 2^(k-1), and a failure with another status, or a 429 with no retries left,
\* is rethrown without a further call.
C21_RetryOnlyOn429WithBackoff ==
  /\ retrying.calls <= retrying.retries0 + 1
  /\ \A k \in 1..RetriedFailures :
       /\ retrying.failures[k] = 429
       /\ k <= retrying.retries0
  /\ Len(retrying.waits) = RetriedFailures
  /\ \A k \in 1..Len(retrying.waits) :
       retrying.waits[k] = retrying.delay0 * Pow2(k - 1)
  /\ retrying.pc = "call" => retrying.calls = Len(retrying.failures)
  /\ retrying.pc = "returned" => retrying.calls = Len(retrying.failures) + 1
  /\ retrying.pc = "thrown" =>
       /\ retrying.calls = Len(retrying.failures)
       /\ \/ retrying.failures[Len(retrying.failures)] # 429
          \/ Len(retrying.failures) = retrying.retries0 + 1

C21_Witness ==
  /\ retrying.pc = "thrown"
  /\ retrying.retries0 = maxRetries
  /\ retrying.delay0 = retryDelay
  /\ retrying.calls = maxRetries + 1
  /\ retrying.failures[retrying.calls] = 429
  /\ retrying.waits = <<retryDelay, 2 * retryDelay, 4 * retryDelay>>

(***************************************************************************)
(* Properties of FileManager.                                              *)
(***************************************************************************)
\* No call is under way on the FileManager.
Quiescent ==
  /\ manager.pc = "constructed"
  /\ \A c \in 1..Len(manager.calls) : manager.calls[c].pc \in {"returned", "thrown"}

\* The calls that returned, in call order.
ReturnedCalls ==
  SelectSeq([c \in 1..Len(manager.calls) |-> c],
            LAMBDA c : manager.calls[c].pc = "returned")

\* C22: createdFiles lists exactly the files whose writeFile or saveScreenshot call
\* returned, one entry per call in call order; a call that threw has left no entry.
C22_CreatedFilesAreTheReturnedCalls ==
  Quiescent =>
    manager.createdFiles =
      [k \in 1..Len(ReturnedCalls) |->
         Entry(manager.calls[ReturnedCalls[k]].file, ReturnedCalls[k])]

\* C23: once two overlapping calls have both returned, metadata.json holds the
\* createdFiles of the metadata in memory, with the files of both calls.
C23_MetadataFileIsCurrent ==
  (/\ Len(manager.calls) = 2
   /\ \A c \in 1..2 : manager.calls[c].pc = "returned") =>
    /\ manager.saved
    /\ manager.json = manager.createdFiles
    /\ \A c \in 1..2 :
         \E k \in 1..Len(manager.json) : manager.json[k] = Entry(manager.calls[c].file, c)

(***************************************************************************)
(* Properties of scrape.                                                   *)
(***************************************************************************)
ScrapeEnded == scraping.pc \in {"returned", "thrown"}

\* C24: when the browser was connected, browser.disconnect is attempted exactly once
\* before scrape returns or throws, whether the steps succeeded or one failed; a failing
\* disconnect is only logged: a scrape whose steps succeeded still returns, and a failed
\* one still throws its 'Scraping failed' error.
C24_DisconnectedOnceAndOnlyLogged ==
  /\ scraping.disconnects <= 1
  /\ scraping.warned => scraping.disconnects = 1
  /\ ScrapeEnded =>
       /\ scraping.disconnects = IF scraping.browser THEN 1 ELSE 0
       /\ scraping.failed = "" =>
            /\ scraping.pc = "returned"
            /\ scraping.step = Len(ScrapeSteps) + 1
       /\ scraping.failed # "" =>
            /\ scraping.pc = "thrown"
            /\ scraping.error.message = "Scraping failed"
            /\ scraping.error.cause = scraping.failed

C24_Witness ==
  /\ scraping.pc = "returned"
  /\ scraping.browser
  /\ scraping.warned
  /\ scraping.disconnects = 1
  /\ scraping.failed = ""

(***************************************************************************)
(* Properties of loadConfig and resetConfigCache.                          *)
(***************************************************************************)
Loaded(j) == loading.calls[j].op = "loadConfig" /\ ~loading.calls[j].threw

Reset(j) == loading.calls[j].op = "resetConfigCache"

\* Call i is a loadConfig that succeeded, with no resetConfigCache from it up to call j.
InForce(i, j) == i < j /\ Loaded(i) /\ \A k \in (i + 1)..(j - 1) : ~Reset(k)

\* The path a loadConfig call names: its argument, config.yaml without one.
OwnPath(j) ==
  IF loading.calls[j].configPath = "" THEN "config.yaml" ELSE loading.calls[j].configPath

\* C25: once loadConfig has succeeded, every later loadConfig call returns that same
\* configuration and reads no file, whatever configPath it is given, until
\* resetConfigCache is called; the loadConfig call after that reads its own path.
C25_CachedUntilReset ==
  \A j \in 1..Len(loading.calls) :
    loading.calls[j].op = "loadConfig" =>
      /\ \A i \in 1..(j - 1) :
           InForce(i, j) =>
             /\ loading.calls[j].read = ""
             /\ ~loading.calls[j].threw
             /\ loading.calls[j].value = loading.calls[i].value
      /\ (j > 1 /\ Reset(j - 1)) =>
           /\ loading.calls[j].read = OwnPath(j)
           /\ \/ loading.calls[j].threw
              \/ loading.calls[j].value = loading.disk[OwnPath(j)].tree

C25_Witness ==
  /\ Len(loading.calls) = 4
  /\ Loaded(1)
  /\ loading.calls[1].configPath = "a.yaml"
  /\ loading.calls[2].op = "loadConfig"
  /\ loading.calls[2].configPath = "b.yaml"
  /\ loading.calls[2].read = ""
  /\ loading.calls[2].value = AppConfig("a")
  /\ Reset(3)
  /\ Loaded(4)
  /\ loading.calls[4].configPath = "b.yaml"
  /\ loading.calls[4].read = "b.yaml"
  /\ loading.calls[4].value = AppConfig("b")

\* The configurations on the disks that have every section validateConfig asks for.
CompleteConfigs == {AppConfig("default"), AppConfig("a"), AppConfig("b")}

\* What a path of the disk holds cannot be loaded.
Unloadable(path) ==
  \/ loading.disk[path].kind # "yaml"
  \/ loading.disk[path].tree \notin CompleteConfigs

\* C26: a loadConfig call that fails, on an unreadable file, on text that is no YAML or
\* on a configuration validateConfig rejects, throws and leaves the cache empty; the
\* cache never holds a configuration that did not pass validateConfig, and the next
\* loadConfig call reads a file again.
C26_FailedLoadLeavesCacheEmpty ==
  /\ loading.cachedConfig \in {JNull} \cup CompleteConfigs
  /\ \A j \in 1..Len(loading.calls) :
       loading.calls[j].op = "loadConfig" =>
         /\ (loading.calls[j].read # "" /\ Unloadable(loading.calls[j].read)) =>
              loading.calls[j].threw
         /\ loading.calls[j].threw =>
              /\ loading.calls[j].read # ""
              /\ loading.calls[j].cached = JNull
              /\ (j < Len(loading.calls) /\ loading.calls[j + 1].op = "loadConfig") =>
                   loading.calls[j + 1].read = OwnPath(j + 1)

C26_Witness ==
  /\ Len(loading.calls) >= 3
  /\ loading.disk["config.yaml"] = Yaml(RemoveKey(AppConfig("default"), "system_prompts"))
  /\ loading.disk["a.yaml"] = Unreadable
  /\ loading.calls[1].op = "loadConfig"
  /\ loading.calls[1].read = "config.yaml"
  /\ loading.calls[1].threw
  /\ loading.calls[2].op = "loadConfig"
  /\ loading.calls[2].read = "a.yaml"
  /\ loading.calls[2].threw
  /\ Loaded(3)
  /\ loading.calls[3].read = "b.yaml"
  /\ loading.cachedConfig = AppConfig("b")

(***************************************************************************)
(* Properties of extractStructuredDataFromChunks.                          *)
(***************************************************************************)
BrandObject == JObj(<<"brand">>, <<JStr("cohiba", {})>>)

\* The object a content stands for: none at all or only white space is '{}', and code
\* fences and white space around one JSON text do not count.
ParsedObject(content) ==
  CASE content \in {MissingContent, <<>>, <<Space>>, <<"{}">>} -> JObj(<<>>, <<>>)
    [] content \in {<<Space, BrandText, Space>>,
                    <<JsonFence, Space, BrandText, Space, Fence>>} -> BrandObject
    [] OTHER -> Undefined

\* The request of a chunk came back with a response: its last call returned.
Answered(entry) == entry.request[Len(entry.request)] = 0

Successful(entry) == Answered(entry) /\ ParsedObject(entry.content) # Undefined

\* The objects of the successful chunks among the first n, in chunk order.
RECURSIVE ObjectsOf(_, _)
ObjectsOf(entries, n) ==
  IF n = 0 THEN <<>>
  ELSE ObjectsOf(entries, n - 1) \o
       (IF Successful(entries[n]) THEN <<ParsedObject(entries[n].content)>> ELSE <<>>)

\* C27: the chunks are processed one at a time in order; a chunk whose request or JSON
\* parse fails is logged and skipped and the later chunks are still processed; the
\* function never throws, and its result holds exactly the parsed objects of the
\* successful chunks in chunk order.
C27_FailedChunksSkipped ==
  /\ chunking.pc \in {"idle", "loop", "returned"}
  /\ \A k \in 1..Len(chunking.log) :
       /\ chunking.log[k].chunk = k
       /\ chunking.log[k].ok = Successful(chunking.log[k])
  /\ Len(chunking.log) <= chunking.chunks
  /\ chunking.pc = "returned" => Len(chunking.log) = chunking.chunks
  /\ chunking.results = ObjectsOf(chunking.log, Len(chunking.log))

C27_Witness ==
  /\ chunking.pc = "returned"
  /\ chunking.chunks = 3
  /\ chunking.log[1].request = <<429>>
  /\ chunking.log[2].request = <<0>>
  /\ chunking.log[2].content = <<"Here is the data:", Space, BrandText>>
  /\ chunking.log[3].request = <<429, 0>>
  /\ chunking.log[3].content = <<JsonFence, Space, BrandText, Space, Fence>>
  /\ chunking.results = <<BrandObject>>

(***************************************************************************)
(* Properties of sanitizeExtractionData on the heap.                       *)
(***************************************************************************)
\* The cells that existed when sanitizeExtractionData was called.
OldAddresses == 1..Len(heap.before)

\* C28: sanitizeExtractionData does not modify its argument: after the call every cell
\* of the input tree is as it was, and every object and array the result reaches is a cell
\* allocated by the call, so the result shares no container with the input.
C28_InputUntouchedResultFresh ==
  heap.pc = "sanitized" =>
    /\ Len(heap.cells) >= Len(heap.before)
    /\ \A a \in OldAddresses : heap.cells[a] = heap.before[a]
    /\ Tree(heap.data, heap.cells) = Tree(heap.data, heap.before)
    /\ Reached(heap.result, heap.cells) \cap OldAddresses = {}
    /\ Tree(heap.result, heap.cells) =
         sanitizeExtractionData(Tree(heap.data, heap.before)).val

C28_Witness ==
  /\ heap.pc = "sanitized"
  /\ Cardinality(Reached(heap.data, heap.before)) >= 3
  /\ Cardinality(Reached(heap.result, heap.cells)) >= 3
  /\ Tree(heap.result, heap.cells) # Tree(heap.data, heap.cells)

====
